---- MODULE Spec2Model ----
(***************************************************************************)
(* Per-user memory store and safety monitor of the AI coach               *)
(* (coach/memory.py, coach/safety.py, coach/sports.py, coach/agent.py).   *)
(*                                                                         *)
(* Messages are Python strings, modelled as TLA+ strings; the lexical     *)
(* operations of the code (lower, in, find, rfind, split, strip, slicing  *)
(* and the regular expressions) are computed character by character.      *)
(* Indices are 0-based as in Python; s[a:b] is Slice(s, a, b).            *)
(***************************************************************************)
EXTENDS Integers, Sequences, FiniteSets, TLC

(***************************************************************************)
(* Python string primitives                                               *)
(***************************************************************************)
Max2(a, b) == IF a >= b THEN a ELSE b
Min2(a, b) == IF a <= b THEN a ELSE b

\* s[i] for a 0-based index inside the string
CharAt(s, i) == SubSeq(s, i + 1, i + 1)

\* s[a:b] for 0 <= a, 0 <= b
Slice(s, a, b) == SubSeq(s, a + 1, Min2(b, Len(s)))

UpperLetters == "ABCDEFGHIJKLMNOPQRSTUVWXYZ"
LowerLetters == "abcdefghijklmnopqrstuvwxyz"
Digits == "0123456789"
Whitespace == {" ", "\t", "\n", "\r"}

LowerChar(c) ==
    IF \E i \in 1..26 : SubSeq(UpperLetters, i, i) = c
    THEN LET i == CHOOSE j \in 1..26 : SubSeq(UpperLetters, j, j) = c
         IN SubSeq(LowerLetters, i, i)
    ELSE c

\* s[a:b].lower(), halving the range
RECURSIVE LowerRange(_, _, _)
LowerRange(s, a, b) ==
    IF b <= a THEN ""
    ELSE IF b = a + 1 THEN LowerChar(CharAt(s, a))
    ELSE LowerRange(s, a, (a + b) \div 2) \o LowerRange(s, (a + b) \div 2, b)

\* str.lower()
Lower(s) == LowerRange(s, 0, Len(s))

IsDigit(c) == \E i \in 1..10 : SubSeq(Digits, i, i) = c
DigitVal(c) == (CHOOSE i \in 1..10 : SubSeq(Digits, i, i) = c) - 1
IsSpace(c) == c \in Whitespace
IsWordChar(c) ==
    \/ IsDigit(c)
    \/ c = "_"
    \/ \E i \in 1..26 : SubSeq(UpperLetters, i, i) = c \/ SubSeq(LowerLetters, i, i) = c

\* s.startswith(sub, i)
MatchAt(s, sub, i) == i + Len(sub) <= Len(s) /\ SubSeq(s, i + 1, i + Len(sub)) = sub

\* sub in s
Contains(s, sub) == \E i \in 0..(Len(s) - Len(sub)) : MatchAt(s, sub, i)

\* s.find(sub, start): lowest index >= start, or -1
Find(s, sub, start) ==
    LET hits == {i \in start..(Len(s) - Len(sub)) : MatchAt(s, sub, i)}
    IN IF hits = {} THEN -1 ELSE CHOOSE i \in hits : \A j \in hits : i <= j

\* s.rfind(sub, start, end): highest index with the match inside [start, end), or -1
RFind(s, sub, start, end) ==
    LET hits == {i \in start..(Min2(end, Len(s)) - Len(sub)) : MatchAt(s, sub, i)}
    IN IF hits = {} THEN -1 ELSE CHOOSE i \in hits : \A j \in hits : i >= j

\* str.strip()
Strip(s) ==
    LET keep == {i \in 0..(Len(s) - 1) : ~IsSpace(CharAt(s, i))}
    IN IF keep = {} THEN ""
       ELSE LET lo == CHOOSE i \in keep : \A j \in keep : i <= j
                hi == CHOOSE i \in keep : \A j \in keep : i >= j
            IN Slice(s, lo, hi + 1)

\* indices at which a whitespace-separated word of s starts
WordStarts(s) ==
    {i \in 0..(Len(s) - 1) :
        ~IsSpace(CharAt(s, i)) /\ (i = 0 \/ IsSpace(CharAt(s, i - 1)))}

\* len(s.split())
WordCount(s) == Cardinality(WordStarts(s))

\* the word of s that starts at index i
WordAt(s, i) ==
    LET ends == {j \in (i + 1)..Len(s) : j = Len(s) \/ IsSpace(CharAt(s, j))}
    IN Slice(s, i, CHOOSE j \in ends : \A k \in ends : j <= k)

\* s.split(), as a set (the code only iterates it under any())
SplitWords(s) == {WordAt(s, i) : i \in WordStarts(s)}

\* end (exclusive) of the maximal run of characters satisfying a class from index i
RECURSIVE DigitsEnd(_, _)
DigitsEnd(s, i) == IF i < Len(s) /\ IsDigit(CharAt(s, i)) THEN DigitsEnd(s, i + 1) ELSE i

RECURSIVE SpacesEnd(_, _)
SpacesEnd(s, i) == IF i < Len(s) /\ IsSpace(CharAt(s, i)) THEN SpacesEnd(s, i + 1) ELSE i

\* int(s[a:b]) for a run of decimal digits
RECURSIVE ParseInt(_, _, _)
ParseInt(s, a, b) ==
    IF a >= b THEN 0 ELSE ParseInt(s, a, b - 1) * 10 + DigitVal(CharAt(s, b - 1))

\* some alternative of the set alts matches s at index i
AnyAt(s, alts, i) == \E a \in alts : MatchAt(s, a, i)

\* end (exclusive) of the alternative of alts that matches s at index i (no
\* alternation of the code has two members that can match at the same index
\* with different lengths and a different outcome of the rest of the pattern)
AltEnd(s, alts, i) ==
    LET ms == {a \in alts : MatchAt(s, a, i)}
    IN i + Len(CHOOSE a \in ms : \A b \in ms : Len(a) >= Len(b))

\* 10 ** k
RECURSIVE Pow10(_)
Pow10(k) == IF k = 0 THEN 1 ELSE 10 * Pow10(k - 1)

\* A number is kept exactly, as numerator n over a power of ten d with no
\* common factor ten: int("5") is 5/1, float("5.50") is 55/10.
RECURSIVE Reduce(_, _)
Reduce(n, d) ==
    IF d > 1 /\ n % 10 = 0 THEN Reduce(n \div 10, d \div 10) ELSE [n |-> n, d |-> d]

Num(n) == [n |-> n, d |-> 1]

(***************************************************************************)
(* coach/sports.py: the two extraction functions                          *)
(***************************************************************************)
score_verbs == {"scored", "made", "got"}
score_nouns == {"goal", "point", "run", "basket"}

\* (?:scored|made|got)\s+(\d+)\s+(?:goals?|points?|runs?|baskets?) matches at i
ScoreMatchAt(s, i) ==
    /\ AnyAt(s, score_verbs, i)
    /\ LET a == AltEnd(s, score_verbs, i)
           b == SpacesEnd(s, a)
           c == DigitsEnd(s, b)
           e == SpacesEnd(s, c)
       IN b > a /\ c > b /\ e > c /\ AnyAt(s, score_nouns, e)

ScoreGroup(s, i) ==
    LET b == SpacesEnd(s, AltEnd(s, score_verbs, i))
    IN ParseInt(s, b, DigitsEnd(s, b))

distance_verbs == {"ran", "swam", "cycled", "covered"}
distance_units == {"km", "kilometers", "miles", "meters", "m"}

\* end (exclusive) of \d+(?:\.\d+)? starting at b (b itself when no digit)
NumberEnd(s, b) ==
    LET c == DigitsEnd(s, b)
    IN IF c > b /\ c < Len(s) /\ CharAt(s, c) = "." /\ DigitsEnd(s, c + 1) > c + 1
       THEN DigitsEnd(s, c + 1)
       ELSE c

\* float(s[b:e]) for a match of \d+(?:\.\d+)?
ParseNumber(s, b, e) ==
    LET c == DigitsEnd(s, b)
    IN IF e = c THEN Num(ParseInt(s, b, c))
       ELSE Reduce(ParseInt(s, b, c) * Pow10(e - (c + 1)) + ParseInt(s, c + 1, e),
                   Pow10(e - (c + 1)))

\* (?:ran|swam|cycled|covered)\s+(\d+(?:\.\d+)?)\s+(?:km|kilometers|miles|meters|m)
DistanceMatchAt(s, i) ==
    /\ AnyAt(s, distance_verbs, i)
    /\ LET a == AltEnd(s, distance_verbs, i)
           b == SpacesEnd(s, a)
           c == NumberEnd(s, b)
           e == SpacesEnd(s, c)
       IN b > a /\ c > b /\ e > c /\ AnyAt(s, distance_units, e)

DistanceGroup(s, i) ==
    LET b == SpacesEnd(s, AltEnd(s, distance_verbs, i))
    IN ParseNumber(s, b, NumberEnd(s, b))

time_prefixes == {"finished in", "time of", "took me"}

\* (?:finished in|time of|took me)\s+(\d+)(?::(\d+))?(?::(\d+))?... matches at i;
\* the optional unit that ends the pattern decides neither the match nor a group
TimeMatchAt(s, i) ==
    /\ AnyAt(s, time_prefixes, i)
    /\ LET a == AltEnd(s, time_prefixes, i)
           b == SpacesEnd(s, a)
       IN b > a /\ DigitsEnd(s, b) > b

\* [from, to) of an optional (?::(\d+)) tried at index c; from = to when absent
ColonGroup(s, c) ==
    IF c < Len(s) /\ CharAt(s, c) = ":" /\ DigitsEnd(s, c + 1) > c + 1
    THEN <<c + 1, DigitsEnd(s, c + 1)>>
    ELSE <<c, c>>

\* total_seconds of the match at i
TimeSeconds(s, i) ==
    LET b == SpacesEnd(s, AltEnd(s, time_prefixes, i))
        c == DigitsEnd(s, b)
        g2 == ColonGroup(s, c)
        g3 == IF g2[1] < g2[2] THEN ColonGroup(s, g2[2]) ELSE <<c, c>>
        has2 == g2[1] < g2[2]
        has3 == g3[1] < g3[2]
        g1v == ParseInt(s, b, c)
        hours == IF ~has2 /\ ~has3 THEN 0 ELSE g1v
        minutes == IF ~has2 /\ ~has3 THEN g1v
                   ELSE IF has2 THEN ParseInt(s, g2[1], g2[2]) ELSE 0
        seconds == IF has3 THEN ParseInt(s, g3[1], g3[2]) ELSE 0
    IN (hours * 3600) + (minutes * 60) + seconds

\* re.search: the leftmost index at which the pattern matches, or -1
SearchFirst(hits) == IF hits = {} THEN -1 ELSE CHOOSE i \in hits : \A j \in hits : i <= j

EmptyMap == [k \in {} |-> 0]

\* dict with m[key] = value set
Put(m, key, value) == [k \in DOMAIN m \cup {key} |-> IF k = key THEN value ELSE m[k]]

\* extract_performance_metrics(message)
extract_performance_metrics(message) ==
    LET s == Lower(message)
        all == 0..Len(s)
        si == SearchFirst({i \in all : ScoreMatchAt(s, i)})
        di == SearchFirst({i \in all : DistanceMatchAt(s, i)})
        ti == SearchFirst({i \in all : TimeMatchAt(s, i)})
        m1 == IF si >= 0 THEN Put(EmptyMap, "score", Num(ScoreGroup(s, si))) ELSE EmptyMap
        m2 == IF di >= 0 THEN Put(m1, "distance", DistanceGroup(s, di)) ELSE m1
    IN IF ti >= 0 THEN Put(m2, "time", Num(TimeSeconds(s, ti))) ELSE m2

confidence_keywords ==
    << <<"very confident", 5>>, <<"confident", 4>>, <<"somewhat confident", 3>>,
       <<"not very confident", 2>>, <<"unconfident", 1>>, <<"no confidence", 0>> >>
anxiety_keywords ==
    << <<"extremely anxious", 5>>, <<"very anxious", 4>>, <<"anxious", 3>>,
       <<"somewhat anxious", 2>>, <<"a little anxious", 1>>, <<"not anxious", 0>>,
       <<"calm", 0>>, <<"relaxed", 0>> >>
focus_keywords ==
    << <<"very focused", 5>>, <<"focused", 4>>, <<"somewhat focused", 3>>,
       <<"distracted", 2>>, <<"very distracted", 1>>, <<"cannot concentrate", 0>> >>
motivation_keywords ==
    << <<"highly motivated", 5>>, <<"motivated", 4>>, <<"somewhat motivated", 3>>,
       <<"not very motivated", 2>>, <<"unmotivated", 1>>, <<"completely unmotivated", 0>> >>

\* index of the first entry of an ordered keyword table found in s, or 0
FirstKeyword(table, s) ==
    LET hits == {i \in 1..Len(table) : Contains(s, table[i][1])}
    IN IF hits = {} THEN 0 ELSE CHOOSE i \in hits : \A j \in hits : i <= j

\* one "for keyword, level in ...: if keyword in message_lower: ...; break" loop
PutLevel(m, key, table, s) ==
    IF FirstKeyword(table, s) = 0 THEN m ELSE Put(m, key, table[FirstKeyword(table, s)][2])

\* extract_mental_state(message)
extract_mental_state(message) ==
    LET s == Lower(message)
    IN PutLevel(PutLevel(PutLevel(PutLevel(EmptyMap,
            "confidence", confidence_keywords, s),
            "anxiety", anxiety_keywords, s),
            "focus", focus_keywords, s),
            "motivation", motivation_keywords, s)

(***************************************************************************)
(* coach/memory.py: the extraction pipeline, message-only parts           *)
(***************************************************************************)
goal_keywords == <<"goal", "want to", "achieve", "improve", "learn", "aspire", "aim">>

\* the text from the first occurrence of the keyword to the next "." or the
\* end of the message, stripped
TriggerTail(message, keyword) ==
    LET goal_start == Find(Lower(message), keyword, 0) + Len(keyword)
        dot == Find(Lower(message), ".", goal_start)
    IN Strip(Slice(message, goal_start, IF dot = -1 THEN Len(message) ELSE dot))

\* the loop goes on to the next keyword when the candidate is empty
GoalCandidate_SkipEmpty(message) ==
    LET hits == {i \in 1..Len(goal_keywords) :
                    /\ Contains(Lower(message), goal_keywords[i])
                    /\ TriggerTail(message, goal_keywords[i]) # ""}
    IN IF hits = {} THEN [found |-> FALSE, goal |-> ""]
       ELSE [found |-> TRUE,
             goal |-> TriggerTail(message,
                                  goal_keywords[CHOOSE i \in hits : \A j \in hits : i <= j])]

\* the candidate of _extract_goals: found is FALSE when no keyword occurs,
\* else goal is message[goal_start:goal_end].strip() for the first keyword of
\* the list that occurs (the loop breaks there)
GoalCandidate(message) ==
    LET ml == Lower(message)
        hits == {i \in 1..Len(goal_keywords) : Contains(ml, goal_keywords[i])}
    IN IF hits = {} THEN [found |-> FALSE, goal |-> ""]
       ELSE LET keyword == goal_keywords[CHOOSE i \in hits : \A j \in hits : i <= j]
                goal_start == Find(ml, keyword, 0) + Len(keyword)
                dot == Find(ml, ".", goal_start)
                goal_end == IF dot = -1 THEN Len(ml) ELSE dot
            IN [found |-> TRUE, goal |-> Strip(Slice(message, goal_start, goal_end))]

preference_phrases ==
    << <<"i prefer", "preference">>, <<"i like", "like">>, <<"i enjoy", "enjoy">>,
       <<"i don't like", "dislike">>, <<"i hate", "dislike">>, <<"i love", "like">> >>

\* the preference string of one phrase that occurs in the message
PreferenceOf(message, phrase) ==
    LET ml == Lower(message)
        pref_start == Find(ml, phrase, 0) + Len(phrase)
        dot == Find(ml, ".", pref_start)
        pref_end == IF dot = -1 THEN Len(ml) ELSE dot
    IN Strip(Slice(message, pref_start, pref_end))

\* the <<category, preference>> pairs _extract_preferences stores, in loop order
RECURSIVE PreferenceHitsFrom(_, _)
PreferenceHitsFrom(message, i) ==
    IF i > Len(preference_phrases) THEN <<>>
    ELSE LET phrase == preference_phrases[i][1]
             rest == PreferenceHitsFrom(message, i + 1)
         IN IF Contains(Lower(message), phrase) /\ PreferenceOf(message, phrase) # ""
            THEN << <<preference_phrases[i][2], PreferenceOf(message, phrase)>> >> \o rest
            ELSE rest

PreferenceHits(message) == PreferenceHitsFrom(message, 1)

positive_emotions == <<"happy", "excited", "proud", "satisfied", "confident", "motivated">>
negative_emotions == <<"frustrated", "disappointed", "anxious", "stressed", "overwhelmed", "stuck">>

\* the insight _extract_emotions_and_insights builds for one found emotion
EmotionInsight(message, emotion, positive) ==
    LET ml == Lower(message)
        emotion_idx == Find(ml, emotion, 0)
        start_idx == Max2(0, RFind(ml, ".", 0, emotion_idx) + 1)
        dot == Find(ml, ".", emotion_idx)
        end_idx == IF dot = -1 THEN Len(ml) ELSE dot
        context == Strip(Slice(message, start_idx, end_idx))
    IN IF positive THEN "User feels " \o emotion \o " about: " \o context
       ELSE "User is experiencing " \o emotion \o " regarding: " \o context

RECURSIVE EmotionInsightsFrom(_, _, _, _)
EmotionInsightsFrom(message, emotions, positive, i) ==
    IF i > Len(emotions) THEN <<>>
    ELSE LET rest == EmotionInsightsFrom(message, emotions, positive, i + 1)
         IN IF Contains(Lower(message), emotions[i])
            THEN <<EmotionInsight(message, emotions[i], positive)>> \o rest
            ELSE rest

\* the insight texts of _extract_emotions_and_insights, in the order added
EmotionInsights(message) ==
    EmotionInsightsFrom(message, positive_emotions, TRUE, 1)
        \o EmotionInsightsFrom(message, negative_emotions, FALSE, 1)

progress_keywords == <<"progress", "completed", "finished", "accomplished", "achieved">>

\* contains_progress of the progress block of _extract_mental_state
ContainsProgress(message_lower) ==
    \E i \in 1..Len(progress_keywords) : Contains(message_lower, progress_keywords[i])

(***************************************************************************)
(* The messages the model sends.  Substring tests and regular-expression  *)
(* searches depend on the message alone; they are computed by the         *)
(* operators above and below and tabulated once over these messages.      *)
(***************************************************************************)
Catalogue ==
    { "",
      "Hi",
      "I want to run",
      "I want to run. I made progress",
      "I completed one more session today",
      "I scored 5 goals",
      "I scored 4 goals. I would say 10/10",
      "I would say 10/10",
      "I would say 11/10",
      "I want to kill myself",
      "KILL MYSELF",
      "my knee is injured and it is bad",
      "I want to swim",
      "I aim to run. My goal",
      "I aim to swim. I want to run",
      "I want to run. I aim to swim",
      "I am exhausted",
      "too lazy",
      "exhausted and too lazy",
      "I am exhausted and overwhelmed but too lazy",
      "too lazy and not motivated, exhausted",
      "I rate myself 9/10, I am 9/10, my level is 9, I would say 9",
      "I am 9/10 and my level is 3",
      "boring",
      "great",
      "I will experiment with a risky jump",
      "I feel worse than last week",
      "/help", "/goals", "/stats", "/safety", "/insights", "/preferences",
      "/ I want to kill myself" }

LowerCatalogue == {Lower(m) : m \in Catalogue}

(***************************************************************************)
(* coach/safety.py: SafetyMonitor                                         *)
(***************************************************************************)
INFO == "info"
WARNING == "warning"
CRITICAL == "critical"
EMERGENCY == "emergency"

OVERTRAINING == "overtraining"
DATA_INCONSISTENCY == "data_inconsistency"
LOW_ENGAGEMENT == "low_engagement"
RESISTANCE == "resistance"
CREATIVITY_MISUSE == "creativity_misuse"
MENTAL_HEALTH == "mental_health"
PERFORMANCE_DROP == "performance_drop"
TEAM_CONFLICT == "team_conflict"
REWARD_MISUSE == "reward_misuse"
LANGUAGE_BARRIER == "language_barrier"
FALSE_REPORTING == "false_reporting"
BURNOUT_LAZINESS == "burnout_laziness"

\* SafetyAlert; the context bag is written by the detectors and read by nothing
SafetyAlert(category, level, message, timestamp, user_id, recommended_action, escalation_required) ==
    [category |-> category, level |-> level, message |-> message,
     timestamp |-> timestamp, user_id |-> user_id,
     recommended_action |-> recommended_action,
     escalation_required |-> escalation_required]

\* self.thresholds, in tenths
fatigue_score_tenths == 8
resistance_threshold_tenths == 6
mental_health_risk_tenths == 7
\* the 0.3 of the enthusiasm trend, in tenths
enthusiasm_floor_tenths == 3

complexity_patterns ==
    << {"utilize", "implement", "facilitate", "optimize", "leverage"},
       {"paradigm", "methodology", "framework", "infrastructure"},
       {"consequently", "furthermore", "moreover", "nevertheless"} >>

mental_health_red_flags ==
    <<"suicide", "kill myself", "end it all", "not worth living",
      "hopeless", "worthless", "burden", "better off dead",
      "self harm", "cut myself", "hurt myself">>

overtraining_indicators ==
    <<"exhausted", "burned out", "overtrained", "plateaued",
      "no progress", "stagnant", "regressing", "injured",
      "pain", "sore", "tired", "fatigued", "drained">>

resistance_patterns ==
    <<"i can't", "impossible", "won't work", "tried that",
      "doesn't help", "waste of time", "stupid", "pointless",
      "not for me", "doesn't fit", "too hard", "too easy">>

dangerous_creativity ==
    <<"try something new", "experiment", "innovative", "creative",
      "unconventional", "different approach", "outside the box">>
risk_words == <<"injury", "dangerous", "risky", "unsafe">>
anxiety_indicators == <<"anxious", "worried", "stressed", "overwhelmed", "panic">>
depression_indicators == <<"sad", "depressed", "hopeless", "worthless", "empty">>
decline_indicators == <<"worse", "declined", "dropped", "regressed", "struggling", "failing">>
injury_indicators == <<"injured", "hurt", "pain", "sore", "injury", "hurt">>
conflict_indicators == <<"team", "teammate", "coach", "conflict", "argument", "disagreement">>
ego_indicators == <<"better than", "superior", "best", "worst", "inferior">>
gaming_indicators == <<"easy points", "quick win", "gaming", "cheating", "shortcut">>
reward_focus == <<"reward", "points", "achievement", "badge", "level">>
non_native_indicators == <<"i am not sure", "i don't understand", "confused", "unclear">>
burnout_indicators ==
    <<"exhausted", "burned out", "overwhelmed", "can't continue",
      "mentally drained", "physically drained", "no energy">>
laziness_indicators ==
    <<"don't feel like it", "too lazy", "can't be bothered",
      "not motivated", "don't want to", "avoiding">>
positive_words == <<"excited", "great", "awesome", "amazing", "fantastic", "love", "enjoy">>
negative_words == <<"boring", "hate", "terrible", "awful", "disappointed", "frustrated">>
metric_names == <<"score", "distance", "time">>
other_words == <<"training", "every day", "improved by", "but", "good", "bad", "easy">>

Range(seq) == {seq[i] : i \in 1..Len(seq)}

\* every string a detector tests with "in"
Lexicon ==
    UNION { Range(mental_health_red_flags), Range(overtraining_indicators),
            Range(resistance_patterns), Range(dangerous_creativity), Range(risk_words),
            Range(anxiety_indicators), Range(depression_indicators),
            Range(decline_indicators), Range(injury_indicators),
            Range(conflict_indicators), Range(ego_indicators), Range(gaming_indicators),
            Range(reward_focus), Range(non_native_indicators), Range(burnout_indicators),
            Range(laziness_indicators), Range(positive_words), Range(negative_words),
            Range(metric_names), Range(other_words) }

\* The detectors are given a message as the record of what they read from
\* it (MessageFacts below): hits holds the strings of the lexicon that the
\* lower-cased message contains.
\* sub in message
In(sub, message) == sub \in message.hits

\* sum(1 for x in list if x in message)
CountIn(list, message) == Cardinality({i \in 1..Len(list) : In(list[i], message)})

\* any(x in message for x in list)
AnyIn(list, message) == \E i \in 1..Len(list) : In(list[i], message)

\* \b at index i of s
WordBoundary(s, i) ==
    (i > 0 /\ IsWordChar(CharAt(s, i - 1))) # (i < Len(s) /\ IsWordChar(CharAt(s, i)))

\* re.search(r'\b(?:w1|w2|...)\b', s, re.IGNORECASE) finds a match
SearchWholeWord(s, alts) ==
    \E i \in 0..Len(s) : \E a \in alts :
        MatchAt(Lower(s), a, i) /\ WordBoundary(s, i) /\ WordBoundary(s, i + Len(a))

\* complexity_score of _detect_language_barriers
ComplexityScore(message) ==
    Cardinality({i \in 1..Len(complexity_patterns) : SearchWholeWord(message, complexity_patterns[i])})

\* int(group 1) of re.search(prefix (\d+) suffix, s), or -1 when there is no match
SearchNumber(s, prefix, suffix) ==
    LET hits == {i \in 0..Len(s) :
                    /\ MatchAt(s, prefix, i)
                    /\ DigitsEnd(s, i + Len(prefix)) > i + Len(prefix)
                    /\ MatchAt(s, suffix, DigitsEnd(s, i + Len(prefix)))}
    IN IF hits = {} THEN -1
       ELSE LET i == SearchFirst(hits)
            IN ParseInt(s, i + Len(prefix), DigitsEnd(s, i + Len(prefix)))

rating_patterns ==
    << <<"rate myself ", "/10">>, <<"i am ", "/10">>,
       <<"my level is ", "">>, <<"i would say ", "">> >>

\* per rating pattern, the self rating found in the message, or -1
SelfRatings(message) ==
    [i \in 1..Len(rating_patterns) |->
        SearchNumber(message, rating_patterns[i][1], rating_patterns[i][2])]

RECURSIVE GCD(_, _)
GCD(a, b) == IF b = 0 THEN a ELSE GCD(b, a % b)

\* the fraction a/b (b > 0, a >= 0) in lowest terms
Frac(a, b) == IF a = 0 THEN [n |-> 0, d |-> 1] ELSE [n |-> a \div GCD(a, b), d |-> b \div GCD(a, b)]

\* max(0, min(1, enthusiasm + 0.5)) where enthusiasm + 0.5 is twice / (2 * total_words);
\* 0.5 when the message has no word
Clamp01(twice, total_words) ==
    IF total_words = 0 THEN Frac(1, 2)
    ELSE IF twice <= 0 THEN Frac(0, 1)
    ELSE IF twice >= 2 * total_words THEN Frac(1, 1)
    ELSE Frac(twice, 2 * total_words)

\* _calculate_enthusiasm_score: max(0, min(1, (positive - negative) / total + 0.5))
calculate_enthusiasm_score(message) ==
    Clamp01(2 * (Cardinality({i \in 1..Len(positive_words) : Contains(message, positive_words[i])})
                   - Cardinality({i \in 1..Len(negative_words) : Contains(message, negative_words[i])}))
                + WordCount(message),
            WordCount(message))

\* what the detectors read from the lower-cased message s with "in", split()
\* and the regular expressions
MessageFacts ==
    [s \in LowerCatalogue |->
        [hits |-> {w \in Lexicon : Contains(s, w)},
         words |-> WordCount(s),
         enthusiasm |-> calculate_enthusiasm_score(s),
         complexity |-> ComplexityScore(s),
         ratings |-> SelfRatings(s),
         improvement |-> SearchNumber(s, "improved by ", "%")]]

\* the list a detector returns: the alerts whose condition holds, in code order
When(cond, alert) == IF cond THEN <<alert>> ELSE <<>>

detect_overtraining(message, user_id, profile, t) ==
    When(CountIn(overtraining_indicators, message) * 10
            > fatigue_score_tenths * Len(overtraining_indicators),
         SafetyAlert(OVERTRAINING, WARNING,
            "Signs of overtraining detected. Consider rest and recovery.", t, user_id,
            "Enforce mandatory rest period and reduce training intensity", TRUE))
    \o When(In("training", message) /\ In("every day", message),
         SafetyAlert(OVERTRAINING, INFO,
            "Daily training without rest days detected.", t, user_id,
            "Recommend rest days and recovery protocols", FALSE))

\* profile.get('performance_metrics', {})
ProfileMetrics(profile) ==
    IF "performance_metrics" \in DOMAIN profile THEN profile.performance_metrics ELSE EmptyMap

detect_data_inconsistency(message, user_id, profile, t) ==
    When(/\ DOMAIN ProfileMetrics(profile) # {}
         /\ In("improved by", message)
         /\ \E metric \in DOMAIN ProfileMetrics(profile) : In(metric, message)
         /\ message.improvement > 50,
         SafetyAlert(DATA_INCONSISTENCY, WARNING,
            "Unusually high performance improvement reported. Please verify data accuracy.",
            t, user_id,
            "Request verification and cross-check with objective measures", FALSE))
    \o When(In("but", message) /\ (In("good", message) \/ In("bad", message)),
         SafetyAlert(DATA_INCONSISTENCY, INFO,
            "Conflicting statements detected in user feedback.", t, user_id,
            "Seek clarification and ask specific questions", FALSE))

\* engagement_metrics after _detect_low_engagement has recorded the message
TrackEngagement(engagement_metrics, message, user_id) ==
    LET em == IF user_id \in DOMAIN engagement_metrics
              THEN engagement_metrics[user_id]
              ELSE [message_length |-> <<>>, response_time |-> <<>>,
                    question_count |-> 0, enthusiasm_score |-> <<>>]
    IN Put(engagement_metrics, user_id,
           [em EXCEPT !.message_length = Append(@, message.words),
                      !.enthusiasm_score = Append(@, message.enthusiasm)])

\* the whole list instead of its last five entries
LastFive_All(seq) == seq

\* seq[-5:]
LastFive(seq) == SubSeq(seq, Max2(1, Len(seq) - 4), Len(seq))

\* numerator of the sum of the fractions of seq over the denominator den
RECURSIVE SumNum(_, _)
SumNum(seq, den) ==
    IF seq = <<>> THEN 0 ELSE Head(seq).n * (den \div Head(seq).d) + SumNum(Tail(seq), den)

RECURSIVE ProdDen(_)
ProdDen(seq) == IF seq = <<>> THEN 1 ELSE Head(seq).d * ProdDen(Tail(seq))

\* sum(recent) / len(recent) < 0.3
MeanBelowFloor(recent) ==
    10 * SumNum(recent, ProdDen(recent)) < enthusiasm_floor_tenths * Len(recent) * ProdDen(recent)

\* the short-response test off by one (fewer than 4 words)
detect_low_engagement_Four(message, user_id, engagement_metrics, t) ==
    When(message.words < 4,
         SafetyAlert(LOW_ENGAGEMENT, WARNING,
            "Very short response detected. User may be disengaged.", t, user_id,
            "Adapt tone to be more engaging and ask open-ended questions", FALSE))

\* the alerts of _detect_low_engagement, given the metrics it has just updated
detect_low_engagement(message, user_id, engagement_metrics, t) ==
    LET recent_enthusiasm == LastFive(engagement_metrics[user_id].enthusiasm_score)
    IN When(message.words < 5,
            SafetyAlert(LOW_ENGAGEMENT, WARNING,
               "Very short response detected. User may be disengaged.", t, user_id,
               "Adapt tone to be more engaging and ask open-ended questions", FALSE))
       \o When(Len(recent_enthusiasm) >= 3 /\ MeanBelowFloor(recent_enthusiasm),
            SafetyAlert(LOW_ENGAGEMENT, WARNING,
               "Declining enthusiasm detected over recent interactions.", t, user_id,
               "Switch to more supportive coaching style and explore motivation barriers",
               FALSE))

detect_resistance(message, user_id, profile, t) ==
    When(CountIn(resistance_patterns, message) * 10
            > resistance_threshold_tenths * Len(resistance_patterns),
         SafetyAlert(RESISTANCE, WARNING,
            "High resistance detected in user response.", t, user_id,
            "Provide evidence-based reasoning and address concerns directly", FALSE))

detect_creativity_misuse(message, user_id, profile, t) ==
    IF CountIn(dangerous_creativity, message) > 0
    THEN IF AnyIn(risk_words, message)
         THEN <<SafetyAlert(CREATIVITY_MISUSE, CRITICAL,
                   "Potentially dangerous creative approach detected.", t, user_id,
                   "Validate safety before encouraging creative approaches", TRUE)>>
         ELSE <<SafetyAlert(CREATIVITY_MISUSE, INFO,
                   "Creative approach suggested. Validating safety.", t, user_id,
                   "Ensure safety protocols are in place before encouragement", FALSE)>>
    ELSE <<>>

\* the red-flag alert raised at CRITICAL instead of EMERGENCY
detect_mental_health_risks_Critical(message, user_id, profile, t) ==
    When(CountIn(mental_health_red_flags, message) > 0,
         SafetyAlert(MENTAL_HEALTH, CRITICAL,
            "Critical mental health indicators detected. Immediate escalation required.",
            t, user_id,
            "Immediately suggest professional help and provide crisis resources", TRUE))

detect_mental_health_risks(message, user_id, profile, t) ==
    When(CountIn(mental_health_red_flags, message) > 0,
         SafetyAlert(MENTAL_HEALTH, EMERGENCY,
            "Critical mental health indicators detected. Immediate escalation required.",
            t, user_id,
            "Immediately suggest professional help and provide crisis resources", TRUE))
    \o When((CountIn(anxiety_indicators, message) + CountIn(depression_indicators, message)) * 10
              > mental_health_risk_tenths
                  * (Len(anxiety_indicators) + Len(depression_indicators)),
         SafetyAlert(MENTAL_HEALTH, WARNING,
            "Signs of anxiety or depression detected. Suggest professional support.",
            t, user_id,
            "Gently suggest professional mental health support and reduce pressure", TRUE))

\* the injury alert raised at CRITICAL without the escalation flag
detect_performance_drop_Unflagged(message, user_id, profile, t) ==
    When(AnyIn(decline_indicators, message) \/ AnyIn(injury_indicators, message),
         SafetyAlert(PERFORMANCE_DROP,
            IF AnyIn(injury_indicators, message) THEN CRITICAL ELSE WARNING,
            "Performance decline or injury detected. Adjusting coaching intensity.",
            t, user_id,
            "Stop high-intensity advice and focus on recovery/support", FALSE))

detect_performance_drop(message, user_id, profile, t) ==
    LET has_decline == AnyIn(decline_indicators, message)
        has_injury == AnyIn(injury_indicators, message)
    IN When(has_decline \/ has_injury,
            SafetyAlert(PERFORMANCE_DROP, IF has_injury THEN CRITICAL ELSE WARNING,
               "Performance decline or injury detected. Adjusting coaching intensity.",
               t, user_id,
               "Stop high-intensity advice and focus on recovery/support", has_injury))

detect_team_conflict(message, user_id, profile, t) ==
    When(AnyIn(conflict_indicators, message),
         SafetyAlert(TEAM_CONFLICT, WARNING,
            "Team conflict detected. Focus on fair motivation without ego inflation.",
            t, user_id,
            "Promote team unity and individual growth without comparison", FALSE))

detect_reward_misuse(message, user_id, profile, t) ==
    When(AnyIn(gaming_indicators, message)
            \/ (AnyIn(reward_focus, message) /\ In("easy", message)),
         SafetyAlert(REWARD_MISUSE, WARNING,
            "Potential reward system gaming detected.", t, user_id,
            "Adjust incentives to focus on genuine progress and effort", FALSE))

detect_language_barriers(message, user_id, profile, t) ==
    When(message.complexity > 2 \/ AnyIn(non_native_indicators, message),
         SafetyAlert(LANGUAGE_BARRIER, INFO,
            "Language barrier detected. Simplifying instructions.", t, user_id,
            "Rephrase instructions in simpler language and provide examples", FALSE))

\* performance_metrics.values()
MetricSeq(performance_metrics) ==
    LET keys == {i \in 1..Len(metric_names) : metric_names[i] \in DOMAIN performance_metrics}
        F[i \in 0..Len(metric_names)] ==
            IF i = 0 THEN <<>>
            ELSE IF i \in keys THEN Append(F[i - 1], performance_metrics[metric_names[i]])
            ELSE F[i - 1]
    IN F[Len(metric_names)]

\* the comparison made inclusive: self_rating >= avg_performance * 2
RatingInflated_Inclusive(self_rating, performance_metrics) ==
    LET values == MetricSeq(performance_metrics)
    IN self_rating * Len(values) * ProdDen(values) >= 2 * SumNum(values, ProdDen(values))

\* self_rating > avg_performance * 2, with avg = sum(values) / len(values)
RatingInflated(self_rating, performance_metrics) ==
    LET values == MetricSeq(performance_metrics)
    IN self_rating * Len(values) * ProdDen(values) > 2 * SumNum(values, ProdDen(values))

\* the loop over the rating patterns left at the first alert
RECURSIVE FalseReportingFrom_FirstOnly(_, _, _, _, _)
FalseReportingFrom_FirstOnly(message, user_id, profile, t, i) ==
    IF i > Len(rating_patterns) THEN <<>>
    ELSE IF /\ message.ratings[i] >= 0
            /\ DOMAIN ProfileMetrics(profile) # {}
            /\ RatingInflated(message.ratings[i], ProfileMetrics(profile))
    THEN <<SafetyAlert(FALSE_REPORTING, WARNING,
              "Self-rating appears inflated compared to performance data.", t, user_id,
              "Request objective performance measures and provide honest feedback", FALSE)>>
    ELSE FalseReportingFrom_FirstOnly(message, user_id, profile, t, i + 1)

RECURSIVE FalseReportingFrom(_, _, _, _, _)
FalseReportingFrom(message, user_id, profile, t, i) ==
    IF i > Len(rating_patterns) THEN <<>>
    ELSE When(/\ message.ratings[i] >= 0
              /\ DOMAIN ProfileMetrics(profile) # {}
              /\ RatingInflated(message.ratings[i], ProfileMetrics(profile)),
              SafetyAlert(FALSE_REPORTING, WARNING,
                 "Self-rating appears inflated compared to performance data.", t, user_id,
                 "Request objective performance measures and provide honest feedback", FALSE))
         \o FalseReportingFrom(message, user_id, profile, t, i + 1)

detect_false_reporting(message, user_id, profile, t) ==
    FalseReportingFrom(message, user_id, profile, t, 1)

\* burnout reported whenever the message has a burnout indicator
detect_burnout_vs_laziness_AnyBurnout(message, user_id, profile, t) ==
    When(CountIn(burnout_indicators, message) > 0,
         SafetyAlert(BURNOUT_LAZINESS, WARNING,
            "Genuine burnout detected. Prioritize recovery and rest.", t, user_id,
            "Implement recovery protocols and reduce training load", TRUE))

detect_burnout_vs_laziness(message, user_id, profile, t) ==
    LET burnout_score == CountIn(burnout_indicators, message)
        laziness_score == CountIn(laziness_indicators, message)
    IN IF burnout_score > laziness_score /\ burnout_score > 0
       THEN <<SafetyAlert(BURNOUT_LAZINESS, WARNING,
                 "Genuine burnout detected. Prioritize recovery and rest.", t, user_id,
                 "Implement recovery protocols and reduce training load", TRUE)>>
       ELSE IF laziness_score > burnout_score /\ laziness_score > 0
       THEN <<SafetyAlert(BURNOUT_LAZINESS, INFO,
                 "Avoidance behavior detected. Address motivation barriers.", t, user_id,
                 "Focus on motivation and discipline strategies", FALSE)>>
       ELSE <<>>

\* SafetyMonitor.__init__: the state the methods modelled here read or write
NewMonitor == [alerts |-> <<>>, engagement_metrics |-> EmptyMap]

\* the twelve detectors in the order monitor_message calls them, the third one
\* on the engagement metrics it has just updated
DetectAll(message_lower, user_id, profile, engagement, t) ==
    detect_overtraining(message_lower, user_id, profile, t)
    \o detect_data_inconsistency(message_lower, user_id, profile, t)
    \o detect_low_engagement(message_lower, user_id, engagement, t)
    \o detect_resistance(message_lower, user_id, profile, t)
    \o detect_creativity_misuse(message_lower, user_id, profile, t)
    \o detect_mental_health_risks(message_lower, user_id, profile, t)
    \o detect_performance_drop(message_lower, user_id, profile, t)
    \o detect_team_conflict(message_lower, user_id, profile, t)
    \o detect_reward_misuse(message_lower, user_id, profile, t)
    \o detect_language_barriers(message_lower, user_id, profile, t)
    \o detect_false_reporting(message_lower, user_id, profile, t)
    \o detect_burnout_vs_laziness(message_lower, user_id, profile, t)

\* a monitor_message that empties the metrics of the profile it was handed
MonitorLowered_ResetsMetrics(monitor, message_lower, user_id, profile, t) ==
    [alerts |-> DetectAll(message_lower, user_id, profile,
                          TrackEngagement(monitor.engagement_metrics, message_lower, user_id), t),
     monitor |-> [alerts |-> monitor.alerts
                      \o DetectAll(message_lower, user_id, profile,
                                   TrackEngagement(monitor.engagement_metrics, message_lower,
                                                   user_id), t),
                  engagement_metrics |->
                      TrackEngagement(monitor.engagement_metrics, message_lower, user_id)],
     profile |-> [profile EXCEPT !.performance_metrics = EmptyMap]]

\* monitor_message from message_lower on: self.alerts.extend(alerts); return alerts
MonitorLowered(monitor, message_lower, user_id, profile, t) ==
    LET engagement == TrackEngagement(monitor.engagement_metrics, message_lower, user_id)
        alerts == DetectAll(message_lower, user_id, profile, engagement, t)
    IN [alerts |-> alerts,
        monitor |-> [alerts |-> monitor.alerts \o alerts, engagement_metrics |-> engagement],
        profile |-> profile]

\* monitor_message: the alerts it returns, the monitor it leaves behind and the
\* profile dictionary it was handed, as it leaves it
monitor_message(monitor, message, user_id, profile, t) ==
    MonitorLowered(monitor, MessageFacts[Lower(message)], user_id, profile, t)

recommendation_of ==
    [c \in {OVERTRAINING, MENTAL_HEALTH, PERFORMANCE_DROP, LOW_ENGAGEMENT, RESISTANCE,
            CREATIVITY_MISUSE, TEAM_CONFLICT, REWARD_MISUSE, LANGUAGE_BARRIER,
            FALSE_REPORTING, BURNOUT_LAZINESS, DATA_INCONSISTENCY} |->
        CASE c = OVERTRAINING -> "Implement mandatory rest periods and reduce training intensity"
          [] c = MENTAL_HEALTH -> "Prioritize mental health support and consider professional referral"
          [] c = PERFORMANCE_DROP -> "Focus on recovery and reduce high-intensity coaching"
          [] c = LOW_ENGAGEMENT -> "Adapt coaching style to be more engaging and supportive"
          [] c = RESISTANCE -> "Provide evidence-based reasoning and address concerns directly"
          [] c = CREATIVITY_MISUSE -> "Validate safety before encouraging creative approaches"
          [] c = TEAM_CONFLICT -> "Promote fair motivation without ego inflation"
          [] c = REWARD_MISUSE -> "Adjust incentives to focus on genuine progress"
          [] c = LANGUAGE_BARRIER -> "Simplify language and provide clear examples"
          [] c = FALSE_REPORTING -> "Request objective measures and provide honest feedback"
          [] c = BURNOUT_LAZINESS -> "Distinguish between burnout and discipline issues"
          [] c = DATA_INCONSISTENCY -> "Verify data accuracy and seek clarification"]

\* the category of every alert, repeated as often as it appears
RECURSIVE FirstSeen_Every(_, _)
FirstSeen_Every(alerts, seen) ==
    IF alerts = <<>> THEN <<>>
    ELSE <<Head(alerts).category>> \o FirstSeen_Every(Tail(alerts), seen)

\* the categories of a list of alerts, each once, in order of first appearance
RECURSIVE FirstSeen(_, _)
FirstSeen(alerts, seen) ==
    IF alerts = <<>> THEN <<>>
    ELSE IF Head(alerts).category \in seen THEN FirstSeen(Tail(alerts), seen)
    ELSE <<Head(alerts).category>> \o FirstSeen(Tail(alerts), seen \cup {Head(alerts).category})

get_safety_recommendations(monitor, user_id) ==
    LET IsUsers(alert) == alert.user_id = user_id
        user_alerts == SelectSeq(monitor.alerts, IsUsers)
        categories == FirstSeen(user_alerts, {})
    IN IF user_alerts = <<>>
       THEN <<"No safety concerns detected. Continue normal coaching.">>
       ELSE [i \in 1..Len(categories) |-> recommendation_of[categories[i]]]

get_escalation_alerts(monitor) ==
    LET Escalates(alert) == alert.escalation_required
    IN SelectSeq(monitor.alerts, Escalates)

\* the whole log is cleared
clear_user_alerts_All(monitor, user_id) == [monitor EXCEPT !.alerts = <<>>]

clear_user_alerts(monitor, user_id) ==
    LET Others(alert) == alert.user_id # user_id
    IN [monitor EXCEPT !.alerts = SelectSeq(monitor.alerts, Others)]

(***************************************************************************)
(* coach/memory.py: UserMemory                                            *)
(* Progress values are held in hundredths (0.2 is 20, 1.0 is 100).        *)
(***************************************************************************)
\* what the extractors read from the message alone; they are given a message
\* as its record of this table
Extracted ==
    [m \in Catalogue |->
        [goal |-> GoalCandidate(m),
         preferences |-> PreferenceHits(m),
         emotions |-> EmotionInsights(m),
         metrics |-> extract_performance_metrics(m),
         mental |-> extract_mental_state(m),
         contains_progress |-> ContainsProgress(Lower(m))]]

NewProfile ==
    [goals |-> <<>>, preferences |-> EmptyMap, progress |-> EmptyMap, insights |-> <<>>,
     performance_metrics |-> EmptyMap, mental_state |-> EmptyMap,
     safety_alerts |-> <<>>, safety_recommendations |-> <<>>]

\* UserMemory.__init__
NewUserMemory(user_id) ==
    [user_id |-> user_id, conversation_history |-> <<>>, user_profile |-> NewProfile,
     safety_monitor |-> NewMonitor]

\* the insight is put at the head of the list
add_insight_AtHead(profile, insight, t) ==
    [profile EXCEPT !.insights = <<[content |-> insight, timestamp |-> t]>> \o @]

add_insight(profile, insight, t) ==
    [profile EXCEPT !.insights = Append(@, [content |-> insight, timestamp |-> t])]

\* float("nan"): the one progress value that is no number, held below the scale
NaN == 0 - 1

\* a > b on floats: false as soon as one side is NaN
Greater(a, b) == a # NaN /\ b # NaN /\ a > b

\* max(a, b) keeps a unless b > a; min(a, b) keeps a unless b < a
PyMax(a, b) == IF Greater(b, a) THEN b ELSE a
PyMin(a, b) == IF Greater(a, b) THEN b ELSE a

\* a + b on floats
FloatAdd(a, b) == IF a = NaN \/ b = NaN THEN NaN ELSE a + b

\* min(max(progress_value, 0), 1)
ClampProgress(progress_value) == PyMin(PyMax(progress_value, 0), 100)

update_progress(profile, goal, progress_value) ==
    [profile EXCEPT !.progress = Put(@, goal, ClampProgress(progress_value))]

\* the goal inserted without the "not in goals" test
extract_goals_NoDedup(profile, message, t) ==
    LET potential_goal == message.goal.goal
    IN IF message.goal.found /\ potential_goal # ""
       THEN add_insight([profile EXCEPT !.goals = Append(@, potential_goal),
                                        !.progress = Put(@, potential_goal, 0)],
                        "New goal identified: " \o potential_goal, t)
       ELSE profile

extract_goals(profile, message, t) ==
    LET potential_goal == message.goal.goal
    IN IF /\ message.goal.found
          /\ potential_goal # ""
          /\ potential_goal \notin Range(profile.goals)
       THEN add_insight([profile EXCEPT !.goals = Append(@, potential_goal),
                                        !.progress = Put(@, potential_goal, 0)],
                        "New goal identified: " \o potential_goal, t)
       ELSE profile

\* one stored preference: the category list is created when absent, the
\* preference appended when not yet in it
StorePreference(preferences, category, preference) ==
    LET old == IF category \in DOMAIN preferences THEN preferences[category] ELSE <<>>
    IN Put(preferences, category,
           IF preference \in Range(old) THEN old ELSE Append(old, preference))

RECURSIVE StorePreferences(_, _)
StorePreferences(preferences, hits) ==
    IF hits = <<>> THEN preferences
    ELSE StorePreferences(StorePreference(preferences, Head(hits)[1], Head(hits)[2]), Tail(hits))

extract_preferences(profile, message, t) ==
    [profile EXCEPT !.preferences = StorePreferences(@, message.preferences)]

RECURSIVE AddInsights(_, _, _)
AddInsights(profile, insights, t) ==
    IF insights = <<>> THEN profile
    ELSE AddInsights(add_insight(profile, Head(insights), t), Tail(insights), t)

extract_emotions_and_insights(profile, message, t) ==
    AddInsights(profile, message.emotions, t)

\* the body of _extract_progress_updates is its docstring
extract_progress_updates(profile, message, t) == profile

\* dict.update in a loop: every key of new overwrites the key of old
Overwrite(old, new) ==
    [k \in DOMAIN old \cup DOMAIN new |-> IF k \in DOMAIN new THEN new[k] ELSE old[k]]

extract_performance_metrics_into(profile, message, t) ==
    [profile EXCEPT !.performance_metrics = Overwrite(@, message.metrics)]

\* any(word in goal_lower for word in goal_lower.split())
GoalMentioned(goal) == \E word \in SplitWords(Lower(goal)) : Contains(Lower(goal), word)

\* progress step of one message: +0.2 capped at 1.0
ProgressStep == 20

\* the last goal of the list is taken instead of the first
ProgressGoal_LastGoal(profile, message) ==
    IF message.contains_progress /\ profile.goals # <<>>
    THEN profile.goals[Len(profile.goals)]
    ELSE ""

\* the goal the progress block of _extract_mental_state updates: the first
\* goal of the list that passes its test, or "" when the block does nothing
ProgressGoal(profile, message) ==
    LET hits == {i \in 1..Len(profile.goals) : GoalMentioned(profile.goals[i])}
    IN IF message.contains_progress /\ hits # {}
       THEN profile.goals[CHOOSE i \in hits : \A j \in hits : i <= j]
       ELSE ""

\* min(current_progress + 0.2, 1.0) for that goal
NewProgress(profile, goal) ==
    PyMin(FloatAdd(IF goal \in DOMAIN profile.progress THEN profile.progress[goal] ELSE 0,
                   ProgressStep),
          100)

\* int(new_progress * 100) raises ValueError on NaN, and nothing catches it
GoalRaises(profile, goal) == goal # "" /\ NewProgress(profile, goal) = NaN

ProgressRaises(profile, message) == GoalRaises(profile, ProgressGoal(profile, message))

\* the progress block on its goal: update_progress, then the insight unless
\* int(new_progress * 100) has raised
ProgressBlock(profile, goal, new_progress, t) ==
    IF new_progress = NaN THEN update_progress(profile, goal, new_progress)
    ELSE add_insight(update_progress(profile, goal, new_progress),
                     "Progress update: " \o goal \o " is now at "
                         \o ToString(new_progress) \o "% completion", t)

\* the progress block that ends _extract_mental_state
ProgressUpdate(profile, goal, t) ==
    IF goal = "" THEN profile
    ELSE ProgressBlock(profile, goal, NewProgress(profile, goal), t)

\* _extract_mental_state
extract_mental_state_into(profile, message, t) ==
    ProgressUpdate([profile EXCEPT !.mental_state = Overwrite(@, message.mental)],
                   ProgressGoal(profile, message), t)

\* the profile as the five extractors before _extract_mental_state leave it
BeforeMentalState(profile, message, t) ==
    extract_performance_metrics_into(
        extract_progress_updates(
            extract_emotions_and_insights(
                extract_preferences(
                    extract_goals(profile, message, t),
                    message, t),
                message, t),
            message, t),
        message, t)

\* the goals are extracted last, after the progress block
update_user_profile_GoalsLast(profile, message, t) ==
    extract_goals(
        extract_mental_state_into(
            extract_performance_metrics_into(
                extract_progress_updates(
                    extract_emotions_and_insights(
                        extract_preferences(profile, message, t),
                        message, t),
                    message, t),
                message, t),
            message, t),
        message, t)

update_user_profile(profile, message, t) ==
    extract_mental_state_into(BeforeMentalState(profile, message, t), message, t)

\* _update_user_profile leaves by the exception of the progress block
UpdateRaises(profile, message, t) ==
    ProgressRaises(BeforeMentalState(profile, message, t), message)

\* the flattened record _monitor_safety stores for an alert
StoredAlert(alert) ==
    [category |-> alert.category, level |-> alert.level, message |-> alert.message,
     timestamp |-> alert.timestamp, recommended_action |-> alert.recommended_action,
     escalation_required |-> alert.escalation_required]

\* only the alerts that require escalation are stored
RECURSIVE StoreAlerts_EscalationsOnly(_, _, _)
StoreAlerts_EscalationsOnly(profile, alerts, t) ==
    IF alerts = <<>> THEN profile
    ELSE IF ~Head(alerts).escalation_required
    THEN StoreAlerts_EscalationsOnly(profile, Tail(alerts), t)
    ELSE StoreAlerts_EscalationsOnly(
            add_insight([profile EXCEPT !.safety_alerts = Append(@, StoredAlert(Head(alerts)))],
                        "Safety Alert (" \o Head(alerts).level \o "): " \o Head(alerts).message, t),
            Tail(alerts), t)

RECURSIVE StoreAlerts(_, _, _)
StoreAlerts(profile, alerts, t) ==
    IF alerts = <<>> THEN profile
    ELSE StoreAlerts(
            add_insight([profile EXCEPT !.safety_alerts = Append(@, StoredAlert(Head(alerts)))],
                        "Safety Alert (" \o Head(alerts).level \o "): " \o Head(alerts).message, t),
            Tail(alerts), t)

\* the insight that ends _monitor_safety when the monitor holds an alert that
\* requires escalation
EscalationInsight(profile, monitor, t) ==
    IF get_escalation_alerts(monitor) # <<>>
    THEN add_insight(profile, "URGENT: Safety escalation required - immediate attention needed", t)
    ELSE profile

\* the urgent insight is added only when this call's alerts require escalation
StoreMonitored_EscalateNew(memory, r, t) ==
    [memory EXCEPT
        !.user_profile =
            EscalationInsight(
                [StoreAlerts(r.profile, r.alerts, t) EXCEPT
                    !.safety_recommendations =
                        get_safety_recommendations(r.monitor, memory.user_id)],
                [r.monitor EXCEPT !.alerts = r.alerts], t),
        !.safety_monitor = r.monitor]

\* _monitor_safety from the return of monitor_message on
StoreMonitored(memory, r, t) ==
    [memory EXCEPT
        !.user_profile =
            EscalationInsight(
                [StoreAlerts(r.profile, r.alerts, t) EXCEPT
                    !.safety_recommendations =
                        get_safety_recommendations(r.monitor, memory.user_id)],
                r.monitor, t),
        !.safety_monitor = r.monitor]

\* _monitor_safety on a memory
monitor_safety(memory, message, t) ==
    StoreMonitored(memory,
                   monitor_message(memory.safety_monitor, message, memory.user_id,
                                   memory.user_profile, t),
                   t)

\* seq[:n], the oldest entries kept instead of the newest
LastEntries_KeepOldest(seq, n) == SubSeq(seq, 1, Min2(n, Len(seq)))

\* seq[-n:]
LastEntries(seq, n) ==
    IF n = 0 THEN seq
    ELSE IF n > 0 THEN SubSeq(seq, Max2(1, Len(seq) - n + 1), Len(seq))
    ELSE SubSeq(seq, Min2(Len(seq), -n) + 1, Len(seq))

\* the trim tested before the append, so that one entry too many stays
AppendTrimmed_LateTrim(history, entry, max_entries) ==
    IF Len(history) > max_entries
    THEN LastEntries(Append(history, entry), max_entries)
    ELSE Append(history, entry)

\* the history after the append and the trim
AppendTrimmed(history, entry, max_entries) ==
    IF Len(history) + 1 > max_entries
    THEN LastEntries(Append(history, entry), max_entries)
    ELSE Append(history, entry)

\* self._monitor_safety(content), which an exception of the extraction skips
MonitorUnlessRaised(memory, content, raised, t) ==
    IF raised THEN memory ELSE monitor_safety(memory, content, t)

\* safety monitoring run before the extraction
UserBranch_MonitorFirst(memory, content, t) ==
    [monitor_safety(memory, content, t) EXCEPT
        !.user_profile = update_user_profile(@, Extracted[content], t)]

\* self._update_user_profile(content), then self._monitor_safety(content)
ExtractThenMonitor(memory, content, message, t) ==
    MonitorUnlessRaised(
        [memory EXCEPT !.user_profile = update_user_profile(@, message, t)],
        content, UpdateRaises(memory.user_profile, message, t), t)

\* the user-message branch of add_message: extraction, then safety monitoring
UserBranch(memory, content, t) == ExtractThenMonitor(memory, content, Extracted[content], t)

\* add_message on a memory
\* extraction and monitoring run whatever the role
add_message_AnyRole(memory, role, content, t, max_entries) ==
    UserBranch([memory EXCEPT !.conversation_history =
                    AppendTrimmed(@, [role |-> role, content |-> content, timestamp |-> t],
                                  max_entries)],
               content, t)

add_message(memory, role, content, t, max_entries) ==
    LET m1 == [memory EXCEPT !.conversation_history =
                    AppendTrimmed(@, [role |-> role, content |-> content, timestamp |-> t],
                                  max_entries)]
    IN IF role = "user" THEN UserBranch(m1, content, t) ELSE m1

\* get_conversation_history returns the list itself
get_conversation_history(memory) == memory.conversation_history

\* the hour's boundary included: t - timestamp <= 3600
RecentAlerts_Inclusive(profile, t) ==
    LET Recent(alert) == t - alert.timestamp <= 3600
    IN SelectSeq(profile.safety_alerts, Recent)

\* the alerts of the last hour
RecentAlerts(profile, t) ==
    LET Recent(alert) == t - alert.timestamp < 3600
    IN SelectSeq(profile.safety_alerts, Recent)

CriticalAlerts(recent_alerts) ==
    LET Critical(alert) == alert.level \in {"critical", "emergency"}
    IN SelectSeq(recent_alerts, Critical)

\* escalation reported whenever the critical count is at least zero
get_safety_status_Always(memory, t) ==
    LET recent_alerts == RecentAlerts(memory.user_profile, t)
        critical_alerts == CriticalAlerts(recent_alerts)
    IN [total_alerts |-> Len(memory.user_profile.safety_alerts),
        recent_alerts |-> Len(recent_alerts),
        critical_alerts |-> Len(critical_alerts),
        recommendations |-> memory.user_profile.safety_recommendations,
        escalation_required |-> Len(critical_alerts) >= 0]

get_safety_status(memory, t) ==
    LET recent_alerts == RecentAlerts(memory.user_profile, t)
        critical_alerts == CriticalAlerts(recent_alerts)
    IN [total_alerts |-> Len(memory.user_profile.safety_alerts),
        recent_alerts |-> Len(recent_alerts),
        critical_alerts |-> Len(critical_alerts),
        recommendations |-> memory.user_profile.safety_recommendations,
        escalation_required |-> Len(critical_alerts) > 0]

(***************************************************************************)
(* config.py, coach/responses.py (mock responses), coach/agent.py          *)
(* A character outside ASCII is written {U+hex code point}.                *)
(***************************************************************************)
COACHING_STYLES ==
    [supportive |-> [description |-> "Encouraging and positive coaching style"],
     challenging |-> [description |-> "Challenging coaching style that pushes the user"],
     analytical |-> [description |-> "Analytical coaching style focused on data and insights"]]

DEFAULT_COACHING_STYLE == "supportive"

\* s.startswith(prefix)
StartsWith(s, prefix) == MatchAt(s, prefix, 0)

\* any(word in s for word in words)
AnyWord(words, s) == \E word \in words : Contains(s, word)

RECURSIVE ConcatAll(_)
ConcatAll(lines) == IF lines = <<>> THEN "" ELSE Head(lines) \o ConcatAll(Tail(lines))

\* ', '.join(items)
RECURSIVE JoinComma(_)
JoinComma(items) ==
    IF items = <<>> THEN ""
    ELSE IF Len(items) = 1 THEN items[1]
    ELSE items[1] \o ", " \o JoinComma(Tail(items))

\* the if / elif / else on coaching_style['description']
ByStyle(coaching_style, supportive, challenging, analytical) ==
    IF StartsWith(coaching_style.description, "Supportive") THEN supportive
    ELSE IF StartsWith(coaching_style.description, "Challenging") THEN challenging
    ELSE analytical

SafetyConcernResponse ==
    "{U+1F6A8} I'm concerned about your safety and well-being. Please consider speaking with a healthcare professional or mental health specialist. Your safety is my top priority."

sports_terms ==
    {"game", "match", "practice", "training", "player", "team", "coach", "performance",
     "technique", "strategy", "competition", "tournament", "athlete", "fitness", "drill"}

\* _get_mock_coaching_response from message_lower on
MockResponseLowered(message_lower, coaching_style, safety_status) ==
    IF safety_status.escalation_required THEN SafetyConcernResponse
    ELSE IF AnyWord({"hello", "hi", "hey", "greetings"}, message_lower)
    THEN "Hello! I'm your " \o coaching_style.description \o ". How can I help you today?"
         \o (IF safety_status.recent_alerts > 0
             THEN "\n\nNote: I've detected " \o ToString(safety_status.recent_alerts)
                  \o " recent safety alerts. Let's make sure we're focusing on your well-being."
             ELSE "")
    ELSE IF AnyWord({"goal", "want to", "achieve", "improve"}, message_lower)
    THEN "That's a great goal! What's your first step toward achieving it?"
    ELSE IF AnyWord({"difficult", "hard", "challenge", "struggle", "problem"}, message_lower)
    THEN ByStyle(coaching_style,
            "I understand this is challenging. Remember that challenges are opportunities for growth. What specific aspect is most difficult for you?",
            "What's stopping you from overcoming this challenge? What would happen if you pushed through this difficulty?",
            "Let's break down this challenge. What are the specific components that make it difficult, and what data do we have about each one?")
    ELSE IF AnyWord({"progress", "better", "improved", "accomplished"}, message_lower)
    THEN "That's excellent progress! How does this achievement align with your larger goals?"
    ELSE IF AnyWord(sports_terms, message_lower)
    THEN ByStyle(coaching_style,
            "I believe in your athletic potential. What specific aspect of your performance would you like to work on today?",
            "Champions are made when no one is watching. How are you pushing yourself beyond your comfort zone in training?",
            "Let's analyze your recent performance data. What metrics have you been tracking, and what patterns do you notice?")
    ELSE ByStyle(coaching_style,
            "I'm here to support you. What would be most helpful for you to focus on right now?",
            "What's one thing you could do today that would push you outside your comfort zone?",
            "Let's analyze your current situation. What metrics or indicators would help us measure your progress?")

\* _get_mock_coaching_response; the safety status process_message passes is
\* never empty
get_mock_coaching_response(message, user_profile, coaching_style, safety_status) ==
    MockResponseLowered(Lower(message), coaching_style, safety_status)

\* get_coaching_response with USE_MOCK_RESPONSES set (no OPENAI_API_KEY)
get_coaching_response(message, conversation_history, user_profile, coaching_style, safety_status) ==
    get_mock_coaching_response(message, user_profile, coaching_style, safety_status)

\* the digits after the point of r / d, for 0 < r < d and d a power of ten
RECURSIVE FracDigits(_, _)
FracDigits(r, d) ==
    IF r = 0 THEN "" ELSE ToString((r * 10) \div d) \o FracDigits((r * 10) % d, d)

\* str() of a float held as n / d
FloatStr(v) ==
    ToString(v.n \div v.d) \o "."
        \o (IF v.n % v.d = 0 THEN "0" ELSE FracDigits(v.n % v.d, v.d))

\* f"{value}": score and time are stored as int, distance as float
MetricStr(metric, value) == IF metric = "distance" THEN FloatStr(value) ELSE ToString(value.n)

mental_state_names == <<"confidence", "anxiety", "focus", "motivation">>
preference_categories == <<"preference", "like", "enjoy", "dislike">>

\* the keys of a dictionary among names, in the order of names. A dictionary
\* is iterated in the order its keys were inserted: one message inserts
\* metrics, mental states and preferences in these orders.
KeysOf(dictionary, names) ==
    LET Held(name) == name \in DOMAIN dictionary
    IN SelectSeq(names, Held)

\* str.capitalize()
Capitalize(s) ==
    IF s = "" THEN ""
    ELSE LET first == CharAt(s, 0)
             rest == LowerRange(s, 1, Len(s))
         IN (IF \E i \in 1..26 : SubSeq(LowerLetters, i, i) = first
             THEN LET i == CHOOSE j \in 1..26 : SubSeq(LowerLetters, j, j) = first
                  IN SubSeq(UpperLetters, i, i)
             ELSE first) \o rest

\* the response of /performance and /stats
PerformanceResponse(profile) ==
    IF ProfileMetrics(profile) = EmptyMap
    THEN "No performance metrics have been recorded yet. You can share your stats during our conversations."
    ELSE LET metrics == KeysOf(profile.performance_metrics, metric_names)
             states == KeysOf(profile.mental_state, mental_state_names)
         IN "Here are your tracked performance metrics:\n"
            \o ConcatAll([i \in 1..Len(metrics) |->
                  "- " \o metrics[i] \o ": "
                       \o MetricStr(metrics[i], profile.performance_metrics[metrics[i]]) \o "\n"])
            \o (IF states # <<>>
                THEN "\nMental state metrics:\n"
                     \o ConcatAll([i \in 1..Len(states) |->
                           "- " \o states[i] \o ": "
                                \o ToString(profile.mental_state[states[i]]) \o "/5\n"])
                ELSE "")

\* the response of /goals; int(progress * 100) of a progress held in
\* hundredths (process_message stores no NaN, on which int() would raise)
GoalsResponse(profile) ==
    IF profile.goals = <<>>
    THEN "You haven't set any goals yet. Would you like to set one now?"
    ELSE "Here are your current goals:\n"
         \o ConcatAll([i \in 1..Len(profile.goals) |->
               ToString(i) \o ". " \o profile.goals[i] \o " - "
                  \o ToString(IF profile.goals[i] \in DOMAIN profile.progress
                              THEN profile.progress[profile.goals[i]] ELSE 0)
                  \o "% complete\n"])

\* the response of /insights: the last five insights
InsightsResponse(profile) ==
    IF profile.insights = <<>>
    THEN "I don't have any insights about your progress yet. Let's continue our coaching conversations to develop some."
    ELSE LET insights == LastFive(profile.insights)
         IN "Here are my coaching insights so far:\n"
            \o ConcatAll([i \in 1..Len(insights) |->
                  ToString(i) \o ". " \o insights[i].content \o "\n"])

\* the response of /preferences
PreferencesResponse(profile) ==
    IF profile.preferences = EmptyMap
    THEN "I haven't learned about your preferences yet. Feel free to share what you like or dislike during our conversations."
    ELSE LET categories == KeysOf(profile.preferences, preference_categories)
         IN "Here are the preferences I've learned about you:\n"
            \o ConcatAll([i \in 1..Len(categories) |->
                  Capitalize(categories[i]) \o ": "
                     \o JoinComma(profile.preferences[categories[i]]) \o "\n"])

\* the response of /safety
SafetyResponse(safety_status) ==
    IF safety_status.total_alerts = 0
    THEN "No safety concerns detected. You're doing great! {U+F0}{U+178}{U+178}{U+A2}"
    ELSE "Safety Status:\n"
         \o "Total Alerts: " \o ToString(safety_status.total_alerts) \o "\n"
         \o "Recent Alerts: " \o ToString(safety_status.recent_alerts) \o "\n"
         \o "Critical Alerts: " \o ToString(safety_status.critical_alerts) \o "\n"
         \o (IF safety_status.escalation_required
             THEN "\n{U+F0}{U+178}{U+161}{U+A8} URGENT: Immediate attention required!\n"
             ELSE "")
         \o (IF safety_status.recommendations # <<>>
             THEN "\nRecommendations:\n"
                  \o ConcatAll([i \in 1..Len(safety_status.recommendations) |->
                        ToString(i) \o ". " \o safety_status.recommendations[i] \o "\n"])
             ELSE "")

HelpResponse ==
    "Available commands:\n"
    \o "/goals - List your current goals and progress\n"
    \o "/insights - Show coaching insights about you\n"
    \o "/preferences - List your preferences I've learned\n"
    \o "/safety - Show safety status and recommendations\n"
    \o "/help - Show this help message\n"

\* the response of a command other than /performance and /stats
CommandResponse(command, memory, t) ==
    IF StartsWith(command, "/goals") THEN GoalsResponse(memory.user_profile)
    ELSE IF StartsWith(command, "/insights") THEN InsightsResponse(memory.user_profile)
    ELSE IF StartsWith(command, "/preferences") THEN PreferencesResponse(memory.user_profile)
    ELSE IF StartsWith(command, "/safety") THEN SafetyResponse(get_safety_status(memory, t))
    ELSE IF StartsWith(command, "/help") THEN HelpResponse
    ELSE "I don't recognize that command. Type /help to see available commands."

\* _handle_command up to its response: the response, and whether the handler
\* goes on to memory.add_message("coach", response) (/performance and /stats
\* return before it); a command reads no safety status to return
handle_command(command, memory, style_config, t) ==
    IF StartsWith(command, "/performance") \/ StartsWith(command, "/stats")
    THEN [response |-> PerformanceResponse(memory.user_profile), replied |-> FALSE,
          status |-> <<>>]
    ELSE [response |-> CommandResponse(command, memory, t), replied |-> TRUE,
          status |-> <<>>]

\* process_message from the command test to the response: a command goes to
\* _handle_command, any other message to the response generator with the
\* safety status read before it
Answer(memory, message, style_config, t) ==
    IF StartsWith(Lower(message), "/")
    THEN handle_command(Lower(message), memory, style_config, t)
    ELSE [response |-> get_coaching_response(message, memory.conversation_history,
                                             memory.user_profile, style_config,
                                             get_safety_status(memory, t)),
          replied |-> TRUE,
          status |-> <<get_safety_status(memory, t)>>]

\* user_profile["safety_status"] = safety_status, for the status process_message
\* read (none on the command path)
StoreStatus(memory, status) ==
    IF status = <<>> THEN memory
    ELSE [memory EXCEPT !.user_profile = Put(@, "safety_status", status[1])]

\* memory.add_message("coach", response), at the end of _handle_command and of
\* process_message; process_message then stores the safety status it read in
\* the profile dictionary it returns
CoachReply(memory, answer, t, max_entries) ==
    [response |-> answer.response, replied |-> answer.replied,
     memory |->
        IF ~answer.replied THEN memory
        ELSE StoreStatus(add_message(memory, "coach", answer.response, t, max_entries),
                         answer.status)]

\* process_message once the user message is in the memory
AfterUserMessage(memory, message, style_config, t, max_entries) ==
    CoachReply(memory, Answer(memory, message, style_config, t), t, max_entries)

\* COACHING_STYLES.get(coaching_style, COACHING_STYLES[DEFAULT_COACHING_STYLE])
StyleConfig(coaching_style) ==
    IF coaching_style \in DOMAIN COACHING_STYLES THEN COACHING_STYLES[coaching_style]
    ELSE COACHING_STYLES[DEFAULT_COACHING_STYLE]

\* process_message on the memory get_user_memory returned
process_message(memory, message, coaching_style, t, max_entries) ==
    AfterUserMessage(add_message(memory, "user", message, t, max_entries), message,
                     StyleConfig(coaching_style), t, max_entries)

\* get_user_memory: the agent's table with a memory for user_id
get_user_memory(table, user_id) ==
    IF user_id \in DOMAIN table THEN table ELSE Put(table, user_id, NewUserMemory(user_id))

(***************************************************************************)
(* State                                                                   *)
(***************************************************************************)
VARIABLES
    MEMORY_MAX_ENTRIES,  \* config.MEMORY_MAX_ENTRIES, read from the environment at import
    user_memories,       \* user id -> UserMemory (history, profile, its SafetyMonitor)
    now,                 \* the clock time.time() reads, in seconds
    sent,                \* user id -> every entry add_message was given, in call order
    last,                \* the last call: its arguments, the memory before it, its result
    server               \* the requests app.py is serving: the UserMemory objects they
                         \* created, the agent's table of them, each request's position

vars == <<MEMORY_MAX_ENTRIES, user_memories, now, sent, last, server>>

\* the default of MEMORY_MAX_ENTRIES
DefaultMaxEntries == 10

\* bounds of the model
MaxMessages == 3
MaxTicks == 3
MaxCap == 3
ExtraAppends == 2
MaxProgressMessages == 3
MaxClockMessages == 2

HalfHour == 30 * 60

NoResult == [total_alerts |-> -1]
NoCall == [op |-> "none", user_id |-> "", role |-> "", content |-> "", goal |-> "",
           value |-> 0, t |-> 0, pre |-> NewUserMemory(""), result |-> NoResult,
           subject |-> "", profile |-> NewProfile]

\* no request is being served
NoServer == [heap |-> <<>>, user_memories |-> EmptyMap, requests |-> EmptyMap]

InitWith(users, caps) ==
    /\ MEMORY_MAX_ENTRIES \in caps
    /\ user_memories = [u \in users |-> NewUserMemory(u)]
    /\ now = 0
    /\ sent = [u \in users |-> <<>>]
    /\ last = NoCall
    /\ server = NoServer

(***************************************************************************)
(* Operations                                                              *)
(***************************************************************************)
\* memory.add_message(role, content) on the memory of user u
AddMessage(u, role, content) ==
    /\ user_memories' =
          [user_memories EXCEPT ![u] = add_message(@, role, content, now, MEMORY_MAX_ENTRIES)]
    /\ sent' = [sent EXCEPT ![u] = Append(@, [role |-> role, content |-> content, timestamp |-> now])]
    /\ last' = [NoCall EXCEPT !.op = "add_message", !.user_id = u, !.role = role,
                              !.content = content, !.t = now, !.pre = user_memories[u]]
    /\ UNCHANGED <<MEMORY_MAX_ENTRIES, now, server>>

\* memory.update_progress(goal, progress_value) on the memory of user u
UpdateProgress(u, goal, progress_value) ==
    /\ user_memories' =
          [user_memories EXCEPT ![u].user_profile = update_progress(@, goal, progress_value)]
    /\ last' = [NoCall EXCEPT !.op = "update_progress", !.user_id = u, !.goal = goal,
                              !.value = progress_value, !.t = now, !.pre = user_memories[u]]
    /\ UNCHANGED <<MEMORY_MAX_ENTRIES, now, sent, server>>

\* memory.get_safety_status() on the memory of user u
GetSafetyStatus(u) ==
    /\ last' = [NoCall EXCEPT !.op = "get_safety_status", !.user_id = u,
                              !.t = now, !.pre = user_memories[u],
                              !.result = get_safety_status(user_memories[u], now)]
    /\ UNCHANGED <<MEMORY_MAX_ENTRIES, user_memories, now, sent, server>>

\* memory.safety_monitor.monitor_message(message, user_id, profile) on the
\* monitor of the memory of user u
MonitorMessage(u, user_id, message, profile) ==
    /\ user_memories' =
          [user_memories EXCEPT ![u].safety_monitor =
              monitor_message(@, message, user_id, profile, now).monitor]
    /\ last' = [NoCall EXCEPT !.op = "monitor_message", !.user_id = u, !.subject = user_id,
                              !.content = message, !.profile = profile, !.t = now,
                              !.pre = user_memories[u],
                              !.result = monitor_message(user_memories[u].safety_monitor,
                                                         message, user_id, profile, now)]
    /\ UNCHANGED <<MEMORY_MAX_ENTRIES, now, sent, server>>

\* a purge that empties the profile's alert records as well
ClearUserAlerts_ProfileToo(u, user_id) ==
    /\ user_memories' =
          [user_memories EXCEPT ![u].safety_monitor = clear_user_alerts(@, user_id),
                                ![u].user_profile.safety_alerts = <<>>]
    /\ last' = [NoCall EXCEPT !.op = "clear_user_alerts", !.user_id = u, !.subject = user_id,
                              !.t = now, !.pre = user_memories[u]]
    /\ UNCHANGED <<MEMORY_MAX_ENTRIES, now, sent, server>>

\* memory.safety_monitor.clear_user_alerts(user_id) on the monitor of the
\* memory of user u
ClearUserAlerts(u, user_id) ==
    /\ user_memories' =
          [user_memories EXCEPT ![u].safety_monitor = clear_user_alerts(@, user_id)]
    /\ last' = [NoCall EXCEPT !.op = "clear_user_alerts", !.user_id = u, !.subject = user_id,
                              !.t = now, !.pre = user_memories[u]]
    /\ UNCHANGED <<MEMORY_MAX_ENTRIES, now, sent, server>>

\* the monitor of the memory that handled the message becomes the monitor of
\* every memory: one SafetyMonitor for the whole agent
Served_SharedMonitor(user_id, message, before, r) ==
    /\ user_memories' =
          [u \in DOMAIN user_memories \cup {user_id} |->
              IF u = user_id THEN r.memory
              ELSE [user_memories[u] EXCEPT !.safety_monitor = r.memory.safety_monitor]]
    /\ sent' = Put(sent, user_id,
                   (IF user_id \in DOMAIN sent THEN sent[user_id] ELSE <<>>)
                      \o <<[role |-> "user", content |-> message, timestamp |-> now]>>
                      \o (IF r.replied
                          THEN <<[role |-> "coach", content |-> r.response, timestamp |-> now]>>
                          ELSE <<>>))
    /\ last' = [NoCall EXCEPT !.op = "process_message", !.user_id = user_id,
                              !.content = message, !.t = now, !.pre = before,
                              !.result = [response |-> r.response, replied |-> r.replied]]
    /\ UNCHANGED <<MEMORY_MAX_ENTRIES, now, server>>

\* what a process_message call leaves: r is its result on the memory before
Served(user_id, message, before, r) ==
    /\ user_memories' = Put(user_memories, user_id, r.memory)
    /\ sent' = Put(sent, user_id,
                   (IF user_id \in DOMAIN sent THEN sent[user_id] ELSE <<>>)
                      \o <<[role |-> "user", content |-> message, timestamp |-> now]>>
                      \o (IF r.replied
                          THEN <<[role |-> "coach", content |-> r.response, timestamp |-> now]>>
                          ELSE <<>>))
    /\ last' = [NoCall EXCEPT !.op = "process_message", !.user_id = user_id,
                              !.content = message, !.t = now, !.pre = before,
                              !.result = [response |-> r.response, replied |-> r.replied]]
    /\ UNCHANGED <<MEMORY_MAX_ENTRIES, now, server>>

\* coach_agent.process_message(message, user_id), the agent in mock-response
\* mode with the coaching style it was constructed with
ProcessMessage(message, user_id) ==
    Served(user_id, message, get_user_memory(user_memories, user_id)[user_id],
           process_message(get_user_memory(user_memories, user_id)[user_id], message,
                           DEFAULT_COACHING_STYLE, now, MEMORY_MAX_ENTRIES))

\* half an hour passes
Tick ==
    /\ now < MaxTicks * HalfHour
    /\ now' = now + HalfHour
    /\ UNCHANGED <<MEMORY_MAX_ENTRIES, user_memories, sent, last, server>>

(***************************************************************************)
(* Spec: one user's memory under user and coach messages and status reads *)
(***************************************************************************)
MainUsers == {"u1"}
MainUserTexts ==
    { "", "I want to kill myself", "KILL MYSELF", "I scored 5 goals", "I would say 10/10",
      "I would say 11/10", "I scored 4 goals. I would say 10/10",
      "my knee is injured and it is bad",
      "I completed one more session today", "I want to run" }
MainCoachTexts == { "I want to kill myself" }

Init == InitWith(MainUsers, {DefaultMaxEntries})

UserMessage == \E u \in MainUsers : \E content \in MainUserTexts :
    Len(sent[u]) < MaxMessages /\ AddMessage(u, "user", content)

CoachMessage == \E u \in MainUsers : \E content \in MainCoachTexts :
    Len(sent[u]) < MaxMessages /\ AddMessage(u, "coach", content)

StatusRead == \E u \in MainUsers : GetSafetyStatus(u)

Next == UserMessage \/ CoachMessage \/ StatusRead

Spec == Init /\ [][Next]_vars

(***************************************************************************)
(* SpecHistory: the bounded history under every cap                       *)
(***************************************************************************)
HistoryCaps == (1..MaxCap) \cup {DefaultMaxEntries}
HistoryEntries == { <<"user", "Hi">>, <<"coach", "I want to run">> }

InitHistory == InitWith(MainUsers, HistoryCaps)

HistoryAppend == \E u \in MainUsers : \E e \in HistoryEntries :
    Len(sent[u]) < MEMORY_MAX_ENTRIES + ExtraAppends /\ AddMessage(u, e[1], e[2])

NextHistory == HistoryAppend

SpecHistory == InitHistory /\ [][NextHistory]_vars

(***************************************************************************)
(* SpecProgress: goals and progress under goal and progress messages and  *)
(* direct update_progress calls                                            *)
(***************************************************************************)
ProgressTexts ==
    { "I want to run", "I want to run. I made progress", "I completed one more session today" }
ProgressGoals == { "run" }
\* progress values given to update_progress, in hundredths: -0.5, 0.4, 1.5
ProgressValues == { -50, 40, 150, NaN }

InitProgress == InitWith(MainUsers, {DefaultMaxEntries})

ProgressMessage == \E u \in MainUsers : \E content \in ProgressTexts :
    Len(sent[u]) < MaxProgressMessages /\ AddMessage(u, "user", content)

ProgressCall == \E u \in MainUsers : \E goal \in ProgressGoals : \E v \in ProgressValues :
    UpdateProgress(u, goal, v)

NextProgress == ProgressMessage \/ ProgressCall

SpecProgress == InitProgress /\ [][NextProgress]_vars

(***************************************************************************)
(* SpecClock: status reads while time passes                               *)
(***************************************************************************)
ClockTexts == { "", "I want to kill myself", "my knee is injured and it is bad" }

InitClock == InitWith(MainUsers, {DefaultMaxEntries})

ClockMessage == \E u \in MainUsers : \E content \in ClockTexts :
    Len(sent[u]) < MaxClockMessages /\ AddMessage(u, "user", content)

NextClock == ClockMessage \/ StatusRead \/ Tick

SpecClock == InitClock /\ [][NextClock]_vars

(***************************************************************************)
(* SpecMonitor: one SafetyMonitor called directly for two users, with     *)
(* profiles that hold no metric or a score, and purged per user           *)
(***************************************************************************)
MaxMonitorCalls == 2
MonitorUsers == {"u1", "u2"}
MonitorTexts ==
    { "", "I want to kill myself", "I would say 11/10", "my knee is injured and it is bad" }
MonitorUserTexts == { "KILL MYSELF", "I completed one more session today" }
MonitorProfiles ==
    { NewProfile, [NewProfile EXCEPT !.performance_metrics = [name \in {"score"} |-> Num(5)]] }

\* the number of messages a monitor has been given
RECURSIVE Monitored(_, _)
Monitored(monitor, users) ==
    IF users = {} THEN 0
    ELSE LET u == CHOOSE x \in users : TRUE
         IN Len(monitor.engagement_metrics[u].message_length) + Monitored(monitor, users \ {u})

InitMonitor == InitWith(MainUsers, {DefaultMaxEntries})

MonitorCall == \E u \in MainUsers : \E user_id \in MonitorUsers :
    \E message \in MonitorTexts : \E profile \in MonitorProfiles :
        /\ Monitored(user_memories[u].safety_monitor,
                     DOMAIN user_memories[u].safety_monitor.engagement_metrics)
              < MaxMonitorCalls
        /\ MonitorMessage(u, user_id, message, profile)

Purge == \E u \in MainUsers : \E user_id \in MonitorUsers : ClearUserAlerts(u, user_id)

\* a user message to the memory that owns the monitor
MonitorUserMessage == \E u \in MainUsers : \E content \in MonitorUserTexts :
    /\ Monitored(user_memories[u].safety_monitor,
                 DOMAIN user_memories[u].safety_monitor.engagement_metrics)
          < MaxMonitorCalls
    /\ AddMessage(u, "user", content)

NextMonitor == MonitorCall \/ Purge \/ MonitorUserMessage

SpecMonitor == InitMonitor /\ [][NextMonitor]_vars

(***************************************************************************)
(* SpecUsers: the memories of two users, each with the SafetyMonitor its  *)
(* UserMemory constructed                                                  *)
(***************************************************************************)
MaxUserMessages == 2
TwoUsers == {"u1", "u2"}
TwoUsersTexts == { "I want to kill myself", "I completed one more session today", "" }

InitUsers == InitWith(TwoUsers, {DefaultMaxEntries})

UsersMessage == \E u \in TwoUsers : \E content \in TwoUsersTexts :
    Len(sent[u]) < MaxUserMessages /\ AddMessage(u, "user", content)

NextUsers == UsersMessage

SpecUsers == InitUsers /\ [][NextUsers]_vars

(***************************************************************************)
(* SpecServer: app.py serving requests. app.run() hands each request to a *)
(* thread of its own, and neither chat() nor process_message takes a lock, *)
(* so the statements of two requests interleave. server.heap holds the    *)
(* UserMemory objects in creation order, server.user_memories is the      *)
(* agent's dictionary (user id -> index of its object), and user_memories  *)
(* is that dictionary with the objects in place of the indexes.           *)
(***************************************************************************)
MaxRequests == 2
Requests == 1..MaxRequests
ServerUsers == {"u1", "u2"}
ServerTexts == { "I want to run", "Hi" }
ServerReplies == { "Well done" }

IdleRequest == [pc |-> "idle", user_id |-> "", message |-> "", memory |-> 0]

\* self.user_memories with each object in place of its index
Deref(s) == [u \in DOMAIN s.user_memories |-> s.heap[s.user_memories[u]]]

InitServer ==
    /\ MEMORY_MAX_ENTRIES = DefaultMaxEntries
    /\ user_memories = EmptyMap
    /\ now = 0
    /\ sent = [u \in ServerUsers |-> <<>>]
    /\ last = NoCall
    /\ server = [NoServer EXCEPT !.requests = [r \in Requests |-> IdleRequest]]

\* one statement of a request: the server after it and the entries given to
\* add_message so far
ServerStep(s, entries) ==
    /\ server' = s
    /\ user_memories' = Deref(s)
    /\ sent' = entries
    /\ UNCHANGED <<MEMORY_MAX_ENTRIES, now, last>>

At(r, pc) == server.requests[r].pc = pc

\* chat(): a request arrives and calls coach_agent.process_message(message, user_id)
Arrive(r) == \E u \in ServerUsers : \E message \in ServerTexts :
    /\ At(r, "idle")
    /\ ServerStep([server EXCEPT !.requests[r] =
                       [pc |-> "lookup", user_id |-> u, message |-> message, memory |-> 0]],
                  sent)

\* get_user_memory: if user_id not in self.user_memories
Lookup(r) ==
    /\ At(r, "lookup")
    /\ ServerStep([server EXCEPT !.requests[r].pc =
                       IF server.requests[r].user_id \in DOMAIN server.user_memories
                       THEN "fetch" ELSE "create"],
                  sent)

\* get_user_memory: self.user_memories[user_id] = UserMemory(user_id)
Create(r) ==
    /\ At(r, "create")
    /\ ServerStep([server EXCEPT
                       !.heap = Append(@, NewUserMemory(server.requests[r].user_id)),
                       !.user_memories = Put(@, server.requests[r].user_id,
                                             Len(server.heap) + 1),
                       !.requests[r].pc = "fetch"],
                  sent)

\* get_user_memory: return self.user_memories[user_id]
Fetch(r) ==
    /\ At(r, "fetch")
    /\ ServerStep([server EXCEPT
                       !.requests[r].memory = server.user_memories[server.requests[r].user_id],
                       !.requests[r].pc = "append"],
                  sent)

\* add_message("user", message): the append to the history and its trim
AppendStep(r) ==
    /\ At(r, "append")
    /\ ServerStep([server EXCEPT
                       !.heap[server.requests[r].memory].conversation_history =
                           AppendTrimmed(@, [role |-> "user",
                                             content |-> server.requests[r].message,
                                             timestamp |-> now], MEMORY_MAX_ENTRIES),
                       !.requests[r].pc = "extract"],
                  [sent EXCEPT ![server.requests[r].user_id] =
                      Append(@, [role |-> "user", content |-> server.requests[r].message,
                                 timestamp |-> now])])

\* the request after self._update_user_profile(content), which may raise
AfterExtract(s, r, message) ==
    [s EXCEPT
        !.heap[s.requests[r].memory].user_profile = update_user_profile(@, message, now),
        !.requests[r].pc =
            IF UpdateRaises(s.heap[s.requests[r].memory].user_profile, message, now)
            THEN "done" ELSE "monitor"]

\* add_message("user", message): self._update_user_profile(content)
ExtractStep(r) ==
    /\ At(r, "extract")
    /\ ServerStep(AfterExtract(server, r, Extracted[server.requests[r].message]), sent)

\* add_message("user", message): self._monitor_safety(content)
MonitorStep(r) ==
    /\ At(r, "monitor")
    /\ ServerStep([server EXCEPT
                       !.heap[server.requests[r].memory] =
                           monitor_safety(@, server.requests[r].message, now),
                       !.requests[r].pc = "reply"],
                  sent)

\* process_message: memory.add_message("coach", response) with the response
\* of the response generator or of the command
ReplyStep(r) == \E response \in ServerReplies :
    /\ At(r, "reply")
    /\ ServerStep([server EXCEPT
                       !.heap[server.requests[r].memory] =
                           add_message(@, "coach", response, now, MEMORY_MAX_ENTRIES),
                       !.requests[r].pc = "done"],
                  [sent EXCEPT ![server.requests[r].user_id] =
                      Append(@, [role |-> "coach", content |-> response, timestamp |-> now])])

NextServer == \E r \in Requests :
    \/ Arrive(r)
    \/ Lookup(r)
    \/ Create(r)
    \/ Fetch(r)
    \/ AppendStep(r)
    \/ ExtractStep(r)
    \/ MonitorStep(r)
    \/ ReplyStep(r)

SpecServer == InitServer /\ [][NextServer]_vars

(***************************************************************************)
(* SpecGoals: goals and their progress under messages that carry goal     *)
(* phrases and progress keywords, and update_progress(goal, 0.9)          *)
(***************************************************************************)
MaxGoalMessages == 3
GoalTexts ==
    { "I want to run", "I want to swim", "I aim to run. My goal",
      "I aim to swim. I want to run", "I want to run. I aim to swim",
      "I want to run. I made progress", "I completed one more session today" }
GoalNames == { "run", "swim" }
\* 0.9, from which one more step is capped at 1.0
GoalProgressValues == { 90 }

InitGoals == InitWith(MainUsers, {DefaultMaxEntries})

GoalMessage == \E u \in MainUsers : \E content \in GoalTexts :
    Len(sent[u]) < MaxGoalMessages /\ AddMessage(u, "user", content)

GoalProgressCall == \E u \in MainUsers : \E goal \in GoalNames :
    \E v \in GoalProgressValues : UpdateProgress(u, goal, v)

NextGoals == GoalMessage \/ GoalProgressCall

SpecGoals == InitGoals /\ [][NextGoals]_vars

(***************************************************************************)
(* SpecDetect: the detectors that read one message and the profile's       *)
(* metrics, called on the monitor directly and through add_message         *)
(***************************************************************************)
MaxDetectCalls == 2
BurnoutTexts ==
    { "Hi", "I am exhausted", "too lazy", "exhausted and too lazy",
      "I am exhausted and overwhelmed but too lazy",
      "too lazy and not motivated, exhausted" }
RatingTexts ==
    { "I would say 10/10",
      "I rate myself 9/10, I am 9/10, my level is 9, I would say 9",
      "I am 9/10 and my level is 3" }
\* a profile dictionary without the performance_metrics key
NoMetricsKey == [goals |-> <<>>]
RatingProfiles ==
    { NoMetricsKey, NewProfile,
      [NewProfile EXCEPT !.performance_metrics = [name \in {"score"} |-> Num(4)]],
      [NewProfile EXCEPT !.performance_metrics = [name \in {"score"} |-> Num(5)]],
      [NewProfile EXCEPT !.performance_metrics =
          [name \in {"score", "time"} |-> IF name = "score" THEN Num(2) ELSE Num(7)]] }

InitDetect == InitWith(MainUsers, {DefaultMaxEntries})

DetectGuard(u) ==
    Monitored(user_memories[u].safety_monitor,
              DOMAIN user_memories[u].safety_monitor.engagement_metrics) < MaxDetectCalls

BurnoutCall == \E u \in MainUsers : \E message \in BurnoutTexts :
    DetectGuard(u) /\ MonitorMessage(u, u, message, NewProfile)

RatingCall == \E u \in MainUsers : \E message \in RatingTexts : \E profile \in RatingProfiles :
    DetectGuard(u) /\ MonitorMessage(u, u, message, profile)

DetectUserMessage == \E u \in MainUsers : \E content \in BurnoutTexts \cup RatingTexts :
    DetectGuard(u) /\ AddMessage(u, "user", content)

NextDetect == BurnoutCall \/ RatingCall \/ DetectUserMessage

SpecDetect == InitDetect /\ [][NextDetect]_vars

(***************************************************************************)
(* SpecEngagement: one monitor given the messages of two users, long       *)
(* enough for the five-score window to leave the oldest scores behind     *)
(***************************************************************************)
MaxEngagementCalls == 6
EngagementTexts == { "boring", "great" }

InitEngagement == InitWith(MainUsers, {DefaultMaxEntries})

EngagementCall == \E u \in MainUsers : \E user_id \in MonitorUsers :
    \E message \in EngagementTexts :
        /\ Monitored(user_memories[u].safety_monitor,
                     DOMAIN user_memories[u].safety_monitor.engagement_metrics)
              < MaxEngagementCalls
        /\ MonitorMessage(u, user_id, message, NewProfile)

NextEngagement == EngagementCall

SpecEngagement == InitEngagement /\ [][NextEngagement]_vars

(***************************************************************************)
(* SpecEscalation: one user's messages at every alert level, the clock,    *)
(* status reads and purges of the monitor's log                            *)
(***************************************************************************)
MaxEscalationMessages == 2
MaxEscalationTicks == 2
EscalationTexts ==
    { "I want to kill myself", "my knee is injured and it is bad",
      "I will experiment with a risky jump", "I am exhausted",
      "I feel worse than last week" }

InitEscalation == InitWith(MainUsers, {DefaultMaxEntries})

EscalationMessage == \E u \in MainUsers : \E content \in EscalationTexts :
    /\ Len(sent[u]) < MaxEscalationMessages
    /\ AddMessage(u, "user", content)

EscalationStatus == \E u \in MainUsers : GetSafetyStatus(u)

EscalationPurge == \E u \in MainUsers : ClearUserAlerts(u, u)

EscalationTick == now < MaxEscalationTicks * HalfHour /\ Tick

NextEscalation == EscalationMessage \/ EscalationStatus \/ EscalationPurge \/ EscalationTick

SpecEscalation == InitEscalation /\ [][NextEscalation]_vars

(***************************************************************************)
(* SpecAgent: one user's messages and commands through process_message     *)
(***************************************************************************)
MaxAgentCalls == 2
AgentUsers == {"u1"}
AgentTexts ==
    { "Hi", "I want to kill myself", "I want to run", "I scored 5 goals",
      "I completed one more session today",
      "/help", "/goals", "/stats", "/safety", "/insights", "/preferences",
      "/ I want to kill myself" }

\* the number of process_message calls made for the users
RECURSIVE CallsMade(_)
CallsMade(users) ==
    IF users = {} THEN 0
    ELSE LET u == CHOOSE x \in users : TRUE
         IN Cardinality({i \in 1..Len(sent[u]) : sent[u][i].role = "user"})
               + CallsMade(users \ {u})

\* CoachingAgent.__init__: no memory yet
InitAgent == InitWith({}, {DefaultMaxEntries})

AgentCall == \E user_id \in AgentUsers : \E message \in AgentTexts :
    /\ CallsMade(DOMAIN sent) < MaxAgentCalls
    /\ ProcessMessage(message, user_id)

NextAgent == AgentCall

SpecAgent == InitAgent /\ [][NextAgent]_vars

(***************************************************************************)
(* SpecIsolation: the messages of two users through one agent              *)
(***************************************************************************)
MaxIsolationCalls == 3
IsolationUsers == {"u1", "u2"}
IsolationTexts == { "Hi", "I want to kill myself", "I want to run", "/safety" }

IsolationCall == \E user_id \in IsolationUsers : \E message \in IsolationTexts :
    /\ CallsMade(DOMAIN sent) < MaxIsolationCalls
    /\ ProcessMessage(message, user_id)

NextIsolation == IsolationCall

SpecIsolation == InitAgent /\ [][NextIsolation]_vars

(***************************************************************************)
(* What the last call added                                                *)
(***************************************************************************)
Suffix(seq, from) == SubSeq(seq, from + 1, Len(seq))

\* the alerts the last call appended to the monitor's log (monitor_message
\* extends the log by exactly the list it returns)
NewMonitorAlerts == Suffix(user_memories[last.user_id].safety_monitor.alerts,
                           Len(last.pre.safety_monitor.alerts))

\* the alert records the last call appended to the profile
NewStoredAlerts == Suffix(user_memories[last.user_id].user_profile.safety_alerts,
                          Len(last.pre.user_profile.safety_alerts))

\* the insights the last call appended to the profile
NewInsights == Suffix(user_memories[last.user_id].user_profile.insights,
                      Len(last.pre.user_profile.insights))

UserCall == last.op = "add_message" /\ last.role = "user"

(***************************************************************************)
(* Claims                                                                  *)
(***************************************************************************)
\* C1: for every cap N >= 1 the history holds at most N entries after each
\* add_message, whatever the roles, and a call that would exceed N removes
\* the oldest entries: the history is the newest part of (history before +
\* the new entry).
C1_HistoryBoundedFifo ==
    \A u \in DOMAIN user_memories :
        LET h == user_memories[u].conversation_history
        IN /\ Len(h) <= MEMORY_MAX_ENTRIES
           /\ (last.op = "add_message" /\ last.user_id = u) =>
                LET all == Append(last.pre.conversation_history,
                                  [role |-> last.role, content |-> last.content,
                                   timestamp |-> last.t])
                IN /\ h = Suffix(all, Len(all) - Len(h))
                   /\ Len(h) = Min2(Len(all), MEMORY_MAX_ENTRIES)

\* a call found the history full and evicted its oldest entry, which differs
\* from the entry kept as the newest
C1_Witness ==
    /\ last.op = "add_message"
    /\ Len(last.pre.conversation_history) = MEMORY_MAX_ENTRIES
    /\ MEMORY_MAX_ENTRIES >= 2
    /\ Len(user_memories[last.user_id].conversation_history) = MEMORY_MAX_ENTRIES
    /\ Head(last.pre.conversation_history).role # last.role

\* C2: after M > cap appends to a fresh memory, the history read back is
\* exactly the last cap appended messages, in their order, role and content
\* of each preserved.
C2_RoundTrip ==
    \A u \in DOMAIN user_memories :
        Len(sent[u]) > MEMORY_MAX_ENTRIES =>
            LET h == get_conversation_history(user_memories[u])
            IN /\ Len(h) = MEMORY_MAX_ENTRIES
               /\ \A i \in 1..MEMORY_MAX_ENTRIES :
                    LET e == sent[u][Len(sent[u]) - MEMORY_MAX_ENTRIES + i]
                    IN h[i].role = e.role /\ h[i].content = e.content

\* more messages than the cap were appended, and the evicted ones are not all
\* equal to the ones kept
C2_Witness ==
    \E u \in DOMAIN user_memories :
        /\ Len(sent[u]) >= MEMORY_MAX_ENTRIES + 2
        /\ MEMORY_MAX_ENTRIES >= 2
        /\ sent[u][1].role # sent[u][Len(sent[u])].role
        /\ sent[u][1].role # sent[u][2].role

\* C3: after any sequence of add_message and update_progress calls every
\* progress value of the profile is a number of [0, 1] (0..100 hundredths).
C3_ProgressInUnitInterval ==
    \A u \in DOMAIN user_memories :
        \A g \in DOMAIN user_memories[u].user_profile.progress :
            /\ user_memories[u].user_profile.progress[g] # NaN
            /\ user_memories[u].user_profile.progress[g] >= 0
            /\ user_memories[u].user_profile.progress[g] <= 100

\* C4: a user message containing "kill myself", whatever else it contains and
\* whatever the profile and engagement state, makes monitor_message return at
\* least one MENTAL_HEALTH alert at level EMERGENCY with escalation_required.
C4_KillMyselfEmergency ==
    (UserCall /\ Contains(Lower(last.content), "kill myself")) =>
        \E i \in 1..Len(NewMonitorAlerts) :
            /\ NewMonitorAlerts[i].category = MENTAL_HEALTH
            /\ NewMonitorAlerts[i].level = EMERGENCY
            /\ NewMonitorAlerts[i].escalation_required

\* the phrase arrived in a message of a user who already had alerts and
\* engagement history
C4_Witness ==
    /\ UserCall
    /\ Contains(Lower(last.content), "kill myself")
    /\ last.pre.user_profile.safety_alerts # <<>>
    /\ last.pre.user_profile.performance_metrics # EmptyMap
    /\ Len(NewMonitorAlerts) >= 2

\* C5: every user message of fewer than 5 whitespace-separated words (the
\* empty message included) stores at least one LOW_ENGAGEMENT alert at level
\* WARNING in the profile.
C5_ShortMessageWarning ==
    (UserCall /\ WordCount(last.content) < 5) =>
        \E i \in 1..Len(NewStoredAlerts) :
            /\ NewStoredAlerts[i].category = LOW_ENGAGEMENT
            /\ NewStoredAlerts[i].level = WARNING

\* a four-word message was stored after earlier messages of the same user
C5_Witness ==
    /\ UserCall
    /\ WordCount(last.content) = 4
    /\ Len(sent[last.user_id]) >= 2
    /\ Len(NewStoredAlerts) >= 1

\* the profile the detectors of the last call were given
Post == user_memories[last.user_id].user_profile

\* performance_metrics holding the one metric {"score": k}
ScoreOnly(k) == [name \in {"score"} |-> Num(k)]

HasAlert(alerts, category, level) ==
    \E i \in 1..Len(alerts) : alerts[i].category = category /\ alerts[i].level = level

HasCategory(alerts, category) ==
    \E i \in 1..Len(alerts) : alerts[i].category = category

GoalKept(goal) ==
    IF goal \in Range(last.pre.user_profile.goals)
    THEN /\ Post.goals = last.pre.user_profile.goals
         /\ \/ Post.progress[goal] = last.pre.user_profile.progress[goal]
            \/ Greater(Post.progress[goal], last.pre.user_profile.progress[goal])
    ELSE /\ Post.goals = Append(last.pre.user_profile.goals, goal)
         /\ Post.progress[goal] \in {0, ProgressStep}

\* C7: repeating a goal phrase never puts the goal into the goals list twice,
\* and a message repeating a goal that is already in the list leaves the list
\* alone and never lowers the goal's progress (it is set to 0.0 only by the
\* message that inserts the goal).
C7_GoalInsertedOnce ==
    /\ \A u \in DOMAIN user_memories :
          LET goals == user_memories[u].user_profile.goals
          IN /\ \A i, j \in 1..Len(goals) : goals[i] = goals[j] => i = j
             /\ \A i \in 1..Len(goals) : goals[i] \in DOMAIN user_memories[u].user_profile.progress
    /\ (UserCall /\ GoalCandidate(last.content).found /\ GoalCandidate(last.content).goal # "")
          => GoalKept(GoalCandidate(last.content).goal)

\* the last call repeated the phrase of `goal` after its progress had been raised
GoalRepeated(goal) ==
    /\ goal \in Range(last.pre.user_profile.goals)
    /\ last.pre.user_profile.progress[goal] # NaN
    /\ last.pre.user_profile.progress[goal] > 0
    /\ Post.progress[goal] = last.pre.user_profile.progress[goal]

\* the goal phrase was repeated after the goal's progress had been raised,
\* and the progress stayed where it was
C7_Witness ==
    /\ UserCall
    /\ GoalCandidate(last.content).found
    /\ ~ContainsProgress(Lower(last.content))
    /\ GoalRepeated(GoalCandidate(last.content).goal)

\* C8: get_safety_status on a memory whose profile holds no safety alert
\* returns total_alerts 0, recent_alerts 0, critical_alerts 0 and
\* escalation_required false.
C8_StatusOfNoAlerts ==
    (last.op = "get_safety_status" /\ last.pre.user_profile.safety_alerts = <<>>) =>
        /\ last.result.total_alerts = 0
        /\ last.result.recent_alerts = 0
        /\ last.result.critical_alerts = 0
        /\ last.result.escalation_required = FALSE

\* the status of a memory that holds messages but no alert was read
C8_Witness ==
    /\ last.op = "get_safety_status"
    /\ last.pre.user_profile.safety_alerts = <<>>
    /\ last.pre.conversation_history # <<>>
    /\ last.result.total_alerts = 0

\* the stored alerts of the memory the last call read, and their ages
StatusAlerts == last.pre.user_profile.safety_alerts
RecentIndexes == {i \in 1..Len(StatusAlerts) : last.t - StatusAlerts[i].timestamp < 3600}
CriticalIndexes == {i \in RecentIndexes : StatusAlerts[i].level \in {CRITICAL, EMERGENCY}}

\* C9: at any clock time t get_safety_status returns total_alerts = the
\* number of stored alerts, recent_alerts = the number of those with
\* t - timestamp < 3600, critical_alerts = the number of recent ones at level
\* critical or emergency, escalation_required = (critical_alerts > 0); hence
\* critical <= recent <= total, escalation_required is false once every
\* critical or emergency alert is an hour old, and the call changes no state.
C9_StatusCounts ==
    last.op = "get_safety_status" =>
        /\ last.result.total_alerts = Len(StatusAlerts)
        /\ last.result.recent_alerts = Cardinality(RecentIndexes)
        /\ last.result.critical_alerts = Cardinality(CriticalIndexes)
        /\ last.result.escalation_required = (last.result.critical_alerts > 0)
        /\ last.result.critical_alerts <= last.result.recent_alerts
        /\ last.result.recent_alerts <= last.result.total_alerts
        /\ (\A i \in 1..Len(StatusAlerts) :
                StatusAlerts[i].level \in {CRITICAL, EMERGENCY}
                    => last.t - StatusAlerts[i].timestamp >= 3600)
              => last.result.escalation_required = FALSE
        /\ user_memories[last.user_id] = last.pre

\* the status was read exactly an hour after an emergency alert, with a
\* younger alert still counted as recent, and escalation had fallen back
C9_Witness ==
    /\ last.op = "get_safety_status"
    /\ \E i \in 1..Len(StatusAlerts) :
          /\ StatusAlerts[i].level = EMERGENCY
          /\ last.t - StatusAlerts[i].timestamp = 3600
    /\ last.result.recent_alerts > 0
    /\ last.result.total_alerts > last.result.recent_alerts
    /\ last.result.escalation_required = FALSE

\* the message lengths the monitor has recorded for a user
MessageLengths(monitor, user_id) ==
    IF user_id \in DOMAIN monitor.engagement_metrics
    THEN monitor.engagement_metrics[user_id].message_length
    ELSE <<>>

IsSafetyInsight(insight) ==
    \/ MatchAt(insight.content, "Safety Alert (", 0)
    \/ MatchAt(insight.content, "URGENT", 0)

\* C10: an add_message call with role "user" appends to the history, then
\* runs the extraction, then the safety monitoring, and calls monitor_message
\* exactly once: the message ends the history, the monitor has recorded one
\* more message, every alert it returned is stored once, the insights of the
\* extraction precede those of the monitoring, and the detectors see the
\* profile as updated by the extraction of the same message (a rating of 10
\* is compared with the score 4 extracted from the same message).
C10_AppendExtractMonitor ==
    UserCall =>
        LET memory == user_memories[last.user_id]
            history == memory.conversation_history
        IN /\ history # <<>>
           /\ history[Len(history)].role = "user"
           /\ history[Len(history)].content = last.content
           /\ MessageLengths(memory.safety_monitor, last.user_id)
                = Append(MessageLengths(last.pre.safety_monitor, last.user_id),
                         WordCount(last.content))
           /\ Len(NewStoredAlerts) = Len(NewMonitorAlerts)
           /\ \A i \in 1..Len(NewStoredAlerts) :
                /\ NewStoredAlerts[i].category = NewMonitorAlerts[i].category
                /\ NewStoredAlerts[i].level = NewMonitorAlerts[i].level
                /\ NewStoredAlerts[i].timestamp = last.t
           /\ \A i, j \in 1..Len(NewInsights) :
                (IsSafetyInsight(NewInsights[i]) /\ ~IsSafetyInsight(NewInsights[j])) => j < i
           /\ (last.content = "I scored 4 goals. I would say 10/10")
                => /\ Post.performance_metrics = ScoreOnly(4)
                   /\ HasAlert(NewMonitorAlerts, FALSE_REPORTING, WARNING)

\* the message carrying both a score and a rating reached a profile that held
\* no metric, and the false-reporting detector fired on it
C10_Witness ==
    /\ UserCall
    /\ last.content = "I scored 4 goals. I would say 10/10"
    /\ last.pre.user_profile.performance_metrics = EmptyMap
    /\ HasCategory(NewStoredAlerts, FALSE_REPORTING)

\* C11: an add_message call whose role is not "user" changes the conversation
\* history only: the profile, the monitor's alert log and the engagement
\* metrics are what they were before the call.
C11_CoachMessageHistoryOnly ==
    (last.op = "add_message" /\ last.role # "user") =>
        /\ Post = last.pre.user_profile
        /\ user_memories[last.user_id].safety_monitor = last.pre.safety_monitor

\* a coach message whose text would raise an alert from a user reached a
\* memory that already held alerts
C11_Witness ==
    /\ last.op = "add_message"
    /\ last.role = "coach"
    /\ last.content = "I want to kill myself"
    /\ last.pre.user_profile.safety_alerts # <<>>
    /\ Len(user_memories[last.user_id].conversation_history)
         = Len(last.pre.conversation_history) + 1

\* the engagement records of a monitor for the users other than user_id
OtherEngagement(monitor, user_id) ==
    [u \in DOMAIN monitor.engagement_metrics \ {user_id} |-> monitor.engagement_metrics[u]]

\* C12: monitor_message leaves the profile it is handed as it was, for every
\* message and profile; of the monitor it changes the alert log, which grows
\* by the alerts it returns, and the engagement metrics of the user it is
\* called for, and nothing of the memory outside the monitor.
C12_MonitorReadsProfileOnly ==
    (last.op = "monitor_message") =>
        LET monitor == user_memories[last.user_id].safety_monitor
        IN /\ last.result.profile = last.profile
           /\ monitor.alerts = last.pre.safety_monitor.alerts \o last.result.alerts
           /\ OtherEngagement(monitor, last.subject)
                = OtherEngagement(last.pre.safety_monitor, last.subject)
           /\ Post = last.pre.user_profile
           /\ user_memories[last.user_id].conversation_history = last.pre.conversation_history

\* monitor_message was handed a profile holding a score, read it (the rating
\* of 11 was compared with the score) and the monitor already held the
\* engagement record of another user
C12_Witness ==
    /\ last.op = "monitor_message"
    /\ last.profile.performance_metrics # EmptyMap
    /\ HasCategory(last.result.alerts, FALSE_REPORTING)
    /\ DOMAIN last.pre.safety_monitor.engagement_metrics \ {last.subject} # {}

\* the alerts of a monitor's log that carry the user id
LoggedFor(monitor, user_id) ==
    LET IsUsers(alert) == alert.user_id = user_id
    IN SelectSeq(monitor.alerts, IsUsers)

\* the alert records of a profile and the alerts of a log agree one by one
SameAlerts(stored, logged) ==
    /\ Len(stored) = Len(logged)
    /\ \A i \in 1..Len(stored) :
          /\ stored[i].category = logged[i].category
          /\ stored[i].level = logged[i].level
          /\ stored[i].escalation_required = logged[i].escalation_required

\* the "Safety Alert (...)" insights among a list of insights
AlertInsights(insights) ==
    LET IsAlertInsight(insight) == MatchAt(insight.content, "Safety Alert (", 0)
    IN SelectSeq(insights, IsAlertInsight)

\* C13: every alert a user message produces is appended to the monitor's log
\* and to the profile's safety_alerts in the same order, with one insight
\* "Safety Alert ({level}): {message}" per alert; so the profile's
\* safety_alerts and the monitor's alerts for the user always agree in
\* length and, one by one, in category, level and escalation flag.
C13_AlertsStoredTwice ==
    /\ \A u \in DOMAIN user_memories :
          SameAlerts(user_memories[u].user_profile.safety_alerts,
                     LoggedFor(user_memories[u].safety_monitor, u))
    /\ UserCall =>
          /\ SameAlerts(NewStoredAlerts, NewMonitorAlerts)
          /\ Len(AlertInsights(NewInsights)) = Len(NewMonitorAlerts)
          /\ \A i \in 1..Len(NewMonitorAlerts) :
                /\ NewStoredAlerts[i].message = NewMonitorAlerts[i].message
                /\ AlertInsights(NewInsights)[i].content
                     = "Safety Alert (" \o NewMonitorAlerts[i].level \o "): "
                         \o NewMonitorAlerts[i].message

\* a user message produced two alerts, one of them without escalation, on a
\* memory that already held alerts
C13_Witness ==
    /\ UserCall
    /\ last.pre.user_profile.safety_alerts # <<>>
    /\ Len(NewMonitorAlerts) >= 2
    /\ \E i \in 1..Len(NewMonitorAlerts) : ~NewMonitorAlerts[i].escalation_required
    /\ \E i \in 1..Len(NewMonitorAlerts) : NewMonitorAlerts[i].escalation_required

\* the "URGENT: ..." insights among a list of insights
UrgentInsights(insights) ==
    LET IsUrgent(insight) ==
            insight.content = "URGENT: Safety escalation required - immediate attention needed"
    IN SelectSeq(insights, IsUrgent)

FirstIndex(alerts, c) ==
    CHOOSE i \in 1..Len(alerts) :
        /\ alerts[i].category = c
        /\ \A j \in 1..(i - 1) : alerts[j].category # c

\* recs holds one recommendation per distinct category of the alerts, in the
\* order in which the categories first appear, or the one "no safety
\* concerns" string when there is no alert
OnePerCategory(recs, alerts) ==
    LET cats == {alerts[i].category : i \in 1..Len(alerts)}
    IN IF alerts = <<>>
       THEN recs = <<"No safety concerns detected. Continue normal coaching.">>
       ELSE /\ Len(recs) = Cardinality(cats)
            /\ \A c \in cats :
                  recs[1 + Cardinality({d \in cats :
                                          FirstIndex(alerts, d) < FirstIndex(alerts, c)})]
                    = recommendation_of[c]

\* C15: get_safety_recommendations(user_id) returns one recommendation per
\* distinct category among the user's alerts in the log, in the order in
\* which the categories first appear, and the single "no safety concerns"
\* string when the log holds no alert of the user; after a user message the
\* profile's safety_recommendations is this list, replacing what it held.
C15_RecommendationPerCategory ==
    /\ \A u \in DOMAIN user_memories : \A user_id \in MonitorUsers :
          OnePerCategory(get_safety_recommendations(user_memories[u].safety_monitor, user_id),
                         LoggedFor(user_memories[u].safety_monitor, user_id))
    /\ UserCall =>
          OnePerCategory(Post.safety_recommendations,
                         LoggedFor(user_memories[last.user_id].safety_monitor, last.user_id))

\* a user message left two recommendations for four alerts of two categories,
\* replacing the two recommendations the profile held
C15_Witness ==
    /\ UserCall
    /\ Len(last.pre.user_profile.safety_recommendations) = 2
    /\ Len(Post.safety_recommendations) = 2
    /\ Len(LoggedFor(user_memories[last.user_id].safety_monitor, last.user_id)) = 4

\* C17: clear_user_alerts(user_id) removes from the monitor's log every alert
\* of that user and leaves the alerts of every other user in place and in
\* order; afterwards get_safety_recommendations(user_id) returns the single
\* "no safety concerns" string.
C17_PurgeOneUser ==
    (last.op = "clear_user_alerts") =>
        LET monitor == user_memories[last.user_id].safety_monitor
        IN /\ LoggedFor(monitor, last.subject) = <<>>
           /\ \A v \in MonitorUsers \ {last.subject} :
                 LoggedFor(monitor, v) = LoggedFor(last.pre.safety_monitor, v)
           /\ Len(monitor.alerts)
                = Len(last.pre.safety_monitor.alerts)
                    - Len(LoggedFor(last.pre.safety_monitor, last.subject))
           /\ monitor.engagement_metrics = last.pre.safety_monitor.engagement_metrics
           /\ get_safety_recommendations(monitor, last.subject)
                = <<"No safety concerns detected. Continue normal coaching.">>

\* the purge of one user met a log that held alerts of both users
C17_Witness ==
    /\ last.op = "clear_user_alerts"
    /\ LoggedFor(last.pre.safety_monitor, last.subject) # <<>>
    /\ \E v \in MonitorUsers \ {last.subject} :
          /\ LoggedFor(last.pre.safety_monitor, v) # <<>>
          /\ LoggedFor(user_memories[last.user_id].safety_monitor, v) # <<>>

\* C16: the alert log is one log shared by all users: get_escalation_alerts(),
\* evaluated while the message of any user is handled, returns the stored
\* alerts of every user that have escalation_required, so it holds an alert of
\* each user whose profile has stored one.
C16_SharedAlertLog ==
    UserCall =>
        \A a \in DOMAIN user_memories :
            (\E i \in 1..Len(user_memories[a].user_profile.safety_alerts) :
                user_memories[a].user_profile.safety_alerts[i].escalation_required)
            => \E j \in 1..Len(get_escalation_alerts(
                                   user_memories[last.user_id].safety_monitor)) :
                  get_escalation_alerts(user_memories[last.user_id].safety_monitor)[j].user_id
                    = a

\* every element of before is in after at the same index
IsPrefix(before, after) ==
    /\ Len(before) <= Len(after)
    /\ \A i \in 1..Len(before) : after[i] = before[i]

\* C20: under add_message calls the profile's insights and safety_alerts are
\* append-only: every step leaves each element present before it at the same
\* index, and neither list shrinks.
C20_AppendOnly ==
    [][\A u \in DOMAIN user_memories :
          /\ IsPrefix(user_memories[u].user_profile.insights,
                      user_memories'[u].user_profile.insights)
          /\ IsPrefix(user_memories[u].user_profile.safety_alerts,
                      user_memories'[u].user_profile.safety_alerts)]_vars

\* a user message appended insights and alerts to lists that held some
C20_Witness ==
    /\ UserCall
    /\ last.pre.user_profile.insights # <<>>
    /\ last.pre.user_profile.safety_alerts # <<>>
    /\ Len(Post.insights) > Len(last.pre.user_profile.insights)
    /\ Len(Post.safety_alerts) > Len(last.pre.user_profile.safety_alerts)

\* the request has appended its message to the history and is not finished
Handling(r) == server.requests[r].pc \in {"extract", "monitor", "reply"}

\* C18: each inbound user message is handled start to finish before the next
\* message for the same user id begins to be handled: no request appends its
\* message to the history of a user while another request for the same user
\* id is between its history append and its end.
C18_HandledStartToFinish ==
    \A r1, r2 \in DOMAIN server.requests :
        (r1 # r2 /\ server.requests[r1].user_id = server.requests[r2].user_id)
            => ~(Handling(r1) /\ Handling(r2))

\* the history holds the user message
Recorded(history, message) ==
    \E i \in 1..Len(history) : history[i].role = "user" /\ history[i].content = message

\* C19: for every user id at most one UserMemory is ever created, and it is
\* never replaced: whatever the interleaving of the process_message calls,
\* get_user_memory hands the same object to all of them and every user
\* message is recorded in the memory the agent holds for the user.
C19_OneMemoryPerUser ==
    /\ \A u \in ServerUsers :
          Cardinality({i \in 1..Len(server.heap) : server.heap[i].user_id = u}) <= 1
    /\ \A r \in DOMAIN server.requests :
          server.requests[r].pc \in {"extract", "monitor", "reply", "done"}
            => /\ server.requests[r].memory = server.user_memories[server.requests[r].user_id]
               /\ Recorded(user_memories[server.requests[r].user_id].conversation_history,
                           server.requests[r].message)

\* the index in goal_keywords of the first trigger phrase, in list order,
\* that occurs in the message; 0 when none occurs
FirstTrigger(message) ==
    IF \E i \in 1..Len(goal_keywords) : Contains(Lower(message), goal_keywords[i])
    THEN CHOOSE i \in 1..Len(goal_keywords) :
            /\ Contains(Lower(message), goal_keywords[i])
            /\ \A j \in 1..(i - 1) : ~Contains(Lower(message), goal_keywords[j])
    ELSE 0

\* the goals after a message whose first trigger phrase is goal_keywords[k]
GoalsAfter(goals, message, k) ==
    IF k = 0 \/ TriggerTail(message, goal_keywords[k]) = ""
            \/ TriggerTail(message, goal_keywords[k]) \in Range(goals)
    THEN goals
    ELSE Append(goals, TriggerTail(message, goal_keywords[k]))

\* C21: goal extraction captures at most one goal per user message: the first
\* trigger phrase of the list (goal, want to, achieve, improve, learn, aspire,
\* aim) that occurs in the message decides the candidate, and scanning stops
\* there even when the candidate is empty or already a goal, so that no later
\* trigger phrase contributes a goal for that message.
C21_OneGoalPerMessage ==
    UserCall =>
        /\ Post.goals = GoalsAfter(last.pre.user_profile.goals, last.content,
                                   FirstTrigger(last.content))
        /\ (last.content = "I aim to run. My goal") => Post.goals = last.pre.user_profile.goals
        /\ (last.content = "I aim to swim. I want to run")
              => Post.goals \in {last.pre.user_profile.goals,
                                 Append(last.pre.user_profile.goals, "run")}

\* the messages in which a later trigger phrase would have given a new goal:
\* "goal" with nothing after it came before "aim", and "want to" gave a goal
\* the profile already held while "aim" would have given "to swim"
C21_Witness ==
    /\ UserCall
    /\ \/ last.content = "I aim to run. My goal"
       \/ /\ last.content = "I want to run. I aim to swim"
          /\ "run" \in Range(last.pre.user_profile.goals)
    /\ Post.goals = last.pre.user_profile.goals

\* the progress of a goal, 0.0 when it has none
ProgressOf(profile, goal) ==
    IF goal \in DOMAIN profile.progress THEN profile.progress[goal] ELSE 0

\* the "Progress update: ..." insights among a list of insights
ProgressInsights(insights) ==
    LET IsProgress(insight) == MatchAt(insight.content, "Progress update: ", 0)
    IN SelectSeq(insights, IsProgress)

\* the last call left the progress of every goal but `bumped` where it was,
\* a goal it inserted being at 0.0
OthersKept(bumped) ==
    \A g \in DOMAIN Post.progress \ {bumped} :
        IF g \in Range(last.pre.user_profile.goals) \/ g \notin Range(Post.goals)
        THEN g \in DOMAIN last.pre.user_profile.progress
                /\ Post.progress[g] = last.pre.user_profile.progress[g]
        ELSE Post.progress[g] = 0

C27_GoalThenProgress ==
    (/\ UserCall
     /\ last.pre.user_profile.goals = <<>>
     /\ FirstTrigger(last.content) # 0
     /\ TriggerTail(last.content, goal_keywords[FirstTrigger(last.content)]) # ""
     /\ ContainsProgress(Lower(last.content)))
    => /\ Len(Post.goals) = 1
       /\ Post.progress[Post.goals[1]] = 20
       /\ \E i, j \in 1..Len(NewInsights) :
             /\ i < j
             /\ NewInsights[i].content = "New goal identified: " \o Post.goals[1]
             /\ NewInsights[j].content
                  = "Progress update: " \o Post.goals[1] \o " is now at 20% completion"

\* the message that names the goal "run" and reports progress reached a
\* profile without goals in which "run" already had a progress of 0.9
C27_Witness ==
    /\ UserCall
    /\ last.content = "I want to run. I made progress"
    /\ last.pre.user_profile.goals = <<>>
    /\ ProgressOf(last.pre.user_profile, "run") = 90
    /\ Post.goals = <<"run">>
    /\ Post.progress["run"] = 20

\* the number of strings of list that the lower-cased text contains
HitsIn(list, text) ==
    Cardinality({i \in 1..Len(list) : Contains(Lower(text), list[i])})

\* the alerts of a category among those the last call logged
LoggedOf(category) ==
    LET OfCategory(alert) == alert.category = category
    IN SelectSeq(NewMonitorAlerts, OfCategory)

MonitoredCall == last.op = "monitor_message" \/ UserCall

\* C23: the burnout-versus-laziness detector emits at most one alert per
\* message: a WARNING that requires escalation when the message has more
\* burnout indicators than laziness indicators, an INFO alert without
\* escalation when it has more laziness indicators, and nothing when the two
\* counts are equal, both zero included.
C23_BurnoutOrLaziness ==
    MonitoredCall =>
        LET burnout == HitsIn(burnout_indicators, last.content)
            laziness == HitsIn(laziness_indicators, last.content)
            found == LoggedOf(BURNOUT_LAZINESS)
        IN /\ Len(found) <= 1
           /\ burnout > laziness =>
                 /\ Len(found) = 1
                 /\ found[1].level = WARNING
                 /\ found[1].escalation_required
           /\ laziness > burnout =>
                 /\ Len(found) = 1
                 /\ found[1].level = INFO
                 /\ ~found[1].escalation_required
           /\ burnout = laziness => found = <<>>

\* a message with indicators of both kinds, burnout ahead, drew the warning
C23_Witness ==
    /\ MonitoredCall
    /\ HitsIn(laziness_indicators, last.content) = 1
    /\ HitsIn(burnout_indicators, last.content) = 2
    /\ Len(LoggedOf(BURNOUT_LAZINESS)) = 1
    /\ LoggedOf(BURNOUT_LAZINESS)[1].level = WARNING

\* the performance_metrics the monitor of the last call was handed: those of
\* the profile passed in, or of the memory's own profile after the extraction
MetricsSeen ==
    IF last.op = "monitor_message"
    THEN IF "performance_metrics" \in DOMAIN last.profile
         THEN last.profile.performance_metrics ELSE EmptyMap
    ELSE Post.performance_metrics

\* the rating patterns that match the text with a rating above twice the
\* mean of the metric values
InflatedPatterns(text, metrics) ==
    LET values == MetricSeq(metrics)
        den == ProdDen(values)
        Rating(i) == SearchNumber(Lower(text), rating_patterns[i][1], rating_patterns[i][2])
    IN {i \in 1..Len(rating_patterns) :
            /\ Rating(i) >= 0
            /\ Rating(i) * Len(values) * den > 2 * SumNum(values, den)}

ScoresOfSubject ==
    user_memories[last.user_id].safety_monitor.engagement_metrics[last.subject].enthusiasm_score

\* the declining-enthusiasm alerts the last call logged
DecliningAlerts ==
    LET Declining(alert) ==
            alert.message = "Declining enthusiasm detected over recent interactions."
    IN SelectSeq(NewMonitorAlerts, Declining)

\* the mean of a list of fractions is below 0.3
MeanUnderThreeTenths(scores) ==
    10 * SumNum(scores, ProdDen(scores)) < 3 * Len(scores) * ProdDen(scores)

\* C24: the declining-enthusiasm LOW_ENGAGEMENT WARNING is never emitted on
\* a user's first or second monitored message; from the third on it is
\* emitted, once, exactly when the mean of that user's most recent min(5, n)
\* enthusiasm scores, the current message's score included, is below 0.3.
C24_DecliningEnthusiasm ==
    last.op = "monitor_message" =>
        LET n == Len(ScoresOfSubject)
            window == SubSeq(ScoresOfSubject, n - Min2(5, n) + 1, n)
        IN /\ ScoresOfSubject[n] = calculate_enthusiasm_score(Lower(last.content))
           /\ \A i \in 1..Len(DecliningAlerts) :
                 /\ DecliningAlerts[i].category = LOW_ENGAGEMENT
                 /\ DecliningAlerts[i].level = WARNING
           /\ Len(DecliningAlerts) =
                 IF n >= 3 /\ MeanUnderThreeTenths(window) THEN 1 ELSE 0

\* a user's sixth message drew the warning on the last five scores although
\* the mean of all six is not below 0.3
C24_Witness ==
    /\ last.op = "monitor_message"
    /\ Len(ScoresOfSubject) = 6
    /\ ~MeanUnderThreeTenths(ScoresOfSubject)
    /\ Len(DecliningAlerts) = 1

Severe(alert) == alert.level \in {CRITICAL, EMERGENCY}

UrgentText == "URGENT: Safety escalation required - immediate attention needed"

\* the insight at index j of the profile is the urgent insight of the call
\* that stored the alert: it carries the alert's timestamp and follows the
\* alert's own insight
UrgentFor(profile, alert, j) ==
    /\ profile.insights[j].content = UrgentText
    /\ profile.insights[j].timestamp = alert.timestamp
    /\ \E k \in 1..(j - 1) :
          /\ profile.insights[k].content
                = "Safety Alert (" \o alert.level \o "): " \o alert.message
          /\ profile.insights[k].timestamp = alert.timestamp

\* C29: every alert a detector produces at CRITICAL or EMERGENCY requires
\* escalation; so whenever get_safety_status() reports escalation_required,
\* the profile's safety_alerts holds a recent alert flagged
\* escalation_required, and the urgent escalation insight was appended by
\* the message that produced it: the call that stores such an alert ends by
\* appending the urgent insight.
C29_SevereAlertsEscalate ==
    \A u \in DOMAIN user_memories :
        LET memory == user_memories[u]
            profile == memory.user_profile
            log == memory.safety_monitor.alerts
        IN /\ \A i \in 1..Len(log) : Severe(log[i]) => log[i].escalation_required
           /\ \A i \in 1..Len(profile.safety_alerts) :
                 Severe(profile.safety_alerts[i]) => profile.safety_alerts[i].escalation_required
           /\ get_safety_status(memory, now).escalation_required =>
                 \E i \in 1..Len(profile.safety_alerts) :
                    /\ Severe(profile.safety_alerts[i])
                    /\ profile.safety_alerts[i].escalation_required
                    /\ \E j \in 1..Len(profile.insights) :
                          UrgentFor(profile, profile.safety_alerts[i], j)
           /\ (UserCall /\ last.user_id = u
                  /\ \E i \in 1..Len(NewStoredAlerts) : Severe(NewStoredAlerts[i])) =>
                 /\ NewInsights # <<>>
                 /\ NewInsights[Len(NewInsights)].content = UrgentText

\* a status read, half an hour after a creative but risky plan drew a
\* critical alert, reports that escalation is required
C29_Witness ==
    /\ last.op = "get_safety_status"
    /\ last.result.escalation_required
    /\ \E i \in 1..Len(Post.safety_alerts) :
          /\ Post.safety_alerts[i].category = CREATIVITY_MISUSE
          /\ Post.safety_alerts[i].level = CRITICAL
          /\ Post.safety_alerts[i].timestamp < now

\* C30: clear_user_alerts on a memory's monitor changes only the monitor's
\* alert log: the profile's safety_alerts and safety_recommendations are
\* the same after it, and get_safety_status() returns the same total, recent
\* and critical counts and the same escalation_required before and after.
C30_PurgeLeavesProfile ==
    last.op = "clear_user_alerts" =>
        LET before == last.pre
            after == user_memories[last.user_id]
        IN /\ after.user_profile = before.user_profile
           /\ after.conversation_history = before.conversation_history
           /\ after.safety_monitor.engagement_metrics
                 = before.safety_monitor.engagement_metrics
           /\ get_safety_status(after, now) = get_safety_status(before, now)

\* a purge emptied a log that held an alert requiring escalation while the
\* status still reports the escalation
C30_Witness ==
    /\ last.op = "clear_user_alerts"
    /\ get_escalation_alerts(last.pre.safety_monitor) # <<>>
    /\ user_memories[last.user_id].safety_monitor.alerts = <<>>
    /\ get_safety_status(user_memories[last.user_id], now).escalation_required
    /\ Len(Post.safety_recommendations) > 0

AgentCalled == last.op = "process_message"

\* C26: in mock-response mode, whenever get_safety_status() reports
\* escalation_required right after process_message has recorded the user
\* message, the response returned is the fixed safety-concern response,
\* whatever the text of the message. (The records get_safety_status reads
\* are those the user message left: the coach's reply adds none.)
C26_SafetyResponseWhenEscalated ==
    (AgentCalled
       /\ get_safety_status(user_memories[last.user_id], last.t).escalation_required)
    => last.result.response = SafetyConcernResponse

\* process_message called for each user entry of a list of add_message
\* entries, from the result r on; the coach entries are the replies
RECURSIVE Replay(_, _)
Replay(r, entries) ==
    IF entries = <<>> THEN r
    ELSE IF Head(entries).role # "user" THEN Replay(r, Tail(entries))
    ELSE Replay(process_message(r.memory, Head(entries).content, DEFAULT_COACHING_STYLE,
                                Head(entries).timestamp, MEMORY_MAX_ENTRIES),
                Tail(entries))

\* the run of the user's own calls alone, on an agent that serves nobody else
Alone(user_id) ==
    Replay([response |-> "", replied |-> FALSE, memory |-> NewUserMemory(user_id)],
           sent[user_id])

\* the user's memory, safety status and last response are those of the run
\* alone
SameAsAlone(user_id, alone) ==
    /\ user_memories[user_id] = alone.memory
    /\ get_safety_status(user_memories[user_id], now) = get_safety_status(alone.memory, now)
    /\ (AgentCalled /\ last.user_id = user_id) => last.result.response = alone.response

\* C28: user isolation. After any sequence of process_message calls, the
\* history, the profile and the safety status of every user, and the
\* response to the user's last call, are those of the run in which the calls
\* of every other user are removed.
C28_UserIsolation ==
    \A user_id \in DOMAIN user_memories : SameAsAlone(user_id, Alone(user_id))

\* a user is answered without the safety response, and holds no urgent
\* insight, after a call before which the other user's monitor held an alert
\* that requires escalation
C28_Witness ==
    /\ AgentCalled
    /\ last.user_id = "u2"
    /\ Len(last.pre.conversation_history) > 0
    /\ "u1" \in DOMAIN user_memories
    /\ get_escalation_alerts(user_memories["u1"].safety_monitor) # <<>>
    /\ last.result.response # SafetyConcernResponse
    /\ \A i \in 1..Len(Post.insights) : Post.insights[i].content # UrgentText
    /\ get_escalation_alerts(user_memories["u2"].safety_monitor) = <<>>
====
